---- MODULE Spec2Model ----
(***************************************************************************)
(* State-machine model of the sheepai25 backend pipeline: the Matcher      *)
(* (matcher.py), the Digest Dispatcher (digest.py, mail.py), the scoring   *)
(* stage (score.py) and the API handlers that write the same tables        *)
(* (api.py).                                                               *)
(*                                                                         *)
(* Conventions.  A text column is a sequence of one-character strings, so  *)
(* that split / strip / join / json.dumps are computed, not assumed.  A    *)
(* nullable column is a set: {} is SQL NULL, {v} is the value v.  Scores   *)
(* are in tenths (6.7 is 67), so 0-5 is 0..50.                             *)
(***************************************************************************)
EXTENDS Integers, Sequences, FiniteSets, TLC

\* ------------------------------------------------------------------ bounds
NumUsers == 2
NumArticles == 2
\* how many stage runs and API calls a behaviour holds
MaxMatcherRuns == 2
MaxDigestRuns == 2
MaxProfileUpdates == 1
MaxReads == 1
MaxScoreRuns == 2
MaxAnalyzeRuns == 1
NumLinks == 6
MaxScrapeRuns == 2
NumUncrawled == 2
NumComments == 5
MaxCommentDepth == 2
NumStories == 2
MaxIngestRuns == 2

Users == 1..NumUsers
Articles == 1..NumArticles

\* ---------------------------------------------------------------- nullable
Null == {}
Some(v) == {v}
IsNull(o) == o = {}
Val(o) == CHOOSE v \in o : TRUE

\* ------------------------------------------------------------ text helpers
RECURSIVE Split(_, _)
\* str.split(sep): "".split(",") is [""]
Split(s, sep) ==
    IF \A i \in 1..Len(s) : s[i] # sep
    THEN <<s>>
    ELSE LET i == CHOOSE k \in 1..Len(s) :
                     s[k] = sep /\ \A j \in 1..(k - 1) : s[j] # sep
         IN  <<SubSeq(s, 1, i - 1)>> \o Split(SubSeq(s, i + 1, Len(s)), sep)

RECURSIVE Strip(_)
\* str.strip()
Strip(s) ==
    IF s = <<>> THEN s
    ELSE IF Head(s) = " " THEN Strip(Tail(s))
    ELSE IF s[Len(s)] = " " THEN Strip(SubSeq(s, 1, Len(s) - 1))
    ELSE s

RECURSIVE Join(_, _)
\* sep.join(parts)
Join(parts, sep) ==
    IF parts = <<>> THEN <<>>
    ELSE IF Len(parts) = 1 THEN parts[1]
    ELSE parts[1] \o sep \o Join(Tail(parts), sep)

\* [c.strip() for c in text.split(",") if c.strip()]
ParseCategories(text) ==
    LET parts == Split(text, ",")
        stripped == [i \in 1..Len(parts) |-> Strip(parts[i])]
    IN  SelectSeq(stripped, LAMBDA f : f # <<>>)

Range(q) == {q[i] : i \in 1..Len(q)}

\* json.dumps(list of str): '[]' for the empty list, '["a", "b"]' otherwise
JsonDumps(items) ==
    <<"[">> \o Join([i \in 1..Len(items) |-> <<"\"">> \o items[i] \o <<"\"">>],
                    <<",", " ">>) \o <<"]">>

\* json.loads of such a text: the list of its strings
JsonLoads(text) ==
    LET inner == SubSeq(text, 2, Len(text) - 1)
        parts == Split(inner, ",")
        item(i) == LET t == Strip(parts[i]) IN SubSeq(t, 2, Len(t) - 1)
    IN  IF inner = <<>> THEN <<>> ELSE [i \in 1..Len(parts) |-> item(i)]

\* list(a_set): the elements in some iteration order
Orderings(S) ==
    {q \in [1..Cardinality(S) -> S] : \A i, j \in 1..Cardinality(S) : i # j => q[i] # q[j]}

\* ------------------------------------------------------------------ values
\* category slugs of constants.CATEGORIES, abbreviated to one letter each
CatA == <<"a">>
CatB == <<"b">>
CatC == <<"c">>
CatZ == <<"z">>
ValidSlugs == {CatA, CatB, CatC, CatZ}

EmptyText == <<>>
\* request.topics of POST /api/profile/ (non-empty, every topic a valid slug)
TopicLists == {<<CatA>>, <<CatB, CatC>>}
\* request.customDescription
Descriptions == {EmptyText, <<"d">>}
\* the profiles submitted: <<topics, customDescription>>
Profiles ==
    {<<<<CatA>>, <<"d">>>>, <<<<CatB, CatC>>, <<"d">>>>, <<<<CatA>>, EmptyText>>,
     <<<<CatB, CatC>>, EmptyText>>}

\* rows of the analysis table as the enrichment stages leave them
AnalysisRow(summary, comments, cats, scores) ==
    [article_summary |-> summary, comments_summary |-> comments,
     categories |-> cats, scores |-> scores]

\* what the enrichment stages have left for content c: "a, b" with an empty
\* summary, "b,c" with a summary, or scores only
InitialAnalysis(c) ==
    CASE c % 3 = 1 ->
           <<AnalysisRow(Some(EmptyText), Some(<<"t">>), Some(<<"a", ",", " ", "b">>), Null)>>
      [] c % 3 = 2 ->
           <<AnalysisRow(Some(<<"s">>), Some(<<"t">>), Some(<<"b", ",", "c">>), Null)>>
      [] OTHER ->
           <<AnalysisRow(Null, Null, Null,
                 Some(<<<<"controversial", 20>>, <<"trustworthy", 30>>, <<"sentiment", 25>>>>))>>

\* what a derivation call yields: Null when it raises, Some(v) when it returns v
\* (tenths: -1.2 and 6.7)
RelevanceOutcomes == {Null, Some(-12), Some(67)}

\* what mail.send meets: the message is accepted, SES raises, or the
\* AWS_* / FROM_EMAIL settings are missing
MailOutcomes == {"delivered", "ses_error", "config_error"}

VARIABLES
    users,          \* users table: id -> [categories, custom_description, is_active]
    analysis,       \* analysis table: content id -> sequence of rows
    user_articles,  \* user_articles table: <<user, article>> -> sequence of rows
    m_pc, m_users, m_articles, m_ui, m_ai,   \* matcher.main: position and locals
    m_last,         \* the pair the Matcher handled last in this run, and how
    m_tx,           \* the Matcher's INSERT that is not committed yet
    m_hist,         \* what the previous Matcher run left behind (history)
    d_pc, d_users, d_i, d_articles,          \* digest.main: position and locals
    d_mail,         \* outcome of mail.send for the current user
    d_pre,          \* user_articles as get_unsent_articles_for_user read it
    d_tx,           \* user_articles as the Dispatcher's uncommitted UPDATE leaves it
    d_log,          \* per pair: the digests accepted for delivery that listed it, and
                    \* whether it was marked as sent for its empty match set (history)
    runs,           \* how many runs and calls have started, per kind
    contents,       \* contents table: content id -> [article, comments]
    s_pc, s_contents, s_i,                   \* score.main: position and locals
    s_last,         \* the content the scoring stage handled last, and how
    a_pc, a_contents, a_i,                   \* analyze.generate_summaries: same
    a_last,         \* the content the summarization stage handled last, and how
    links,          \* links table: link id -> [hn_id]
    c_pc, c_links, c_i, c_results,           \* scrape.main: position and locals, per run
    c_tasks,        \* the crawls of the batch in hand: running, or what they met
    c_tx,           \* contents as a run's uncommitted UPDATEs leave it
    c_outcomes,     \* what each crawl of the last batch met
    c_pre,          \* contents as it was before the last batch was stored
    hn,             \* the source: the reply tree, each reply's state, the depth asked
    f_pc, f_trace, f_comments, f_dump,       \* ingest.process_story: what it did
    i_pc, i_ids, i_k, i_story,               \* ingest.main, per run in progress
    i_tx,           \* the writes a run has made and not committed yet
    i_last          \* the identifier a run handled last, and how

matcherVars == <<m_pc, m_users, m_articles, m_ui, m_ai, m_last, m_tx>>
digestVars == <<d_pc, d_users, d_i, d_articles, d_mail, d_pre, d_tx, d_log>>
vars == <<users, analysis, user_articles, m_pc, m_users, m_articles, m_ui, m_ai,
          m_last, m_tx, m_hist, d_pc, d_users, d_i, d_articles, d_mail, d_pre, d_tx, d_log,
          runs,
          contents, s_pc, s_contents, s_i, s_last, a_pc, a_contents, a_i, a_last,
          links, c_pc, c_links, c_i, c_results, c_tasks, c_tx, c_outcomes, c_pre,
          hn, f_pc, f_trace, f_comments, f_dump,
          i_pc, i_ids, i_k, i_story, i_tx, i_last>>
scoreVars == <<s_pc, s_contents, s_i, s_last>>
analyzeVars == <<a_pc, a_contents, a_i, a_last>>
enrichVars == <<contents, scoreVars, analyzeVars>>
tableVars == <<users, user_articles>>
scrapeVars == <<c_pc, c_links, c_i, c_results, c_tasks, c_tx, c_outcomes, c_pre>>
fetchVars == <<hn, f_pc, f_trace, f_comments, f_dump>>
ingestVars == <<i_pc, i_ids, i_k, i_story, i_tx, i_last>>
sourceVars == <<links, scrapeVars, fetchVars, ingestVars>>
stageVars == <<enrichVars, sourceVars>>

Pairs == Users \X Articles

\* ids of the rows of a user_articles table: <<user, article, k>>
IdsOf(ua) == UNION {{<<p[1], p[2], k>> : k \in 1..Len(ua[p])} : p \in Pairs}
RowOf(ua, id) == ua[<<id[1], id[2]>>][id[3]]
Row(id) == RowOf(user_articles, id)
AllRowIds == IdsOf(user_articles)

RECURSIVE SortedSeq(_)
\* the integers of S in ascending order (ORDER BY id)
SortedSeq(S) ==
    IF S = {} THEN <<>>
    ELSE LET m == CHOOSE x \in S : \A y \in S : x <= y
         IN  <<m>> \o SortedSeq(S \ {m})

\* ================================================================ matcher.py
\* SELECT id, categories, custom_description FROM users
\* WHERE categories IS NOT NULL AND categories != ''
get_users_with_categories ==
    LET ids == SortedSeq({u \in Users : users[u].categories # EmptyText})
    IN  [i \in 1..Len(ids) |->
            [id |-> ids[i],
             categories |-> ParseCategories(users[ids[i]].categories),
             custom_description |-> users[ids[i]].custom_description]]

\* the rows of analysis for content c that pass
\* WHERE a.categories IS NOT NULL AND a.categories != ''
ArticleRowsOf(c) ==
    LET sel == SelectSeq(analysis[c],
                         LAMBDA r : ~IsNull(r.categories) /\ Val(r.categories) # EmptyText)
    IN  [i \in 1..Len(sel) |->
            [link_id |-> c,
             categories |-> ParseCategories(Val(sel[i].categories)),
             article_summary |-> IF IsNull(sel[i].article_summary) THEN EmptyText
                                 ELSE Val(sel[i].article_summary)]]

RECURSIVE ArticleRowsFrom(_)
ArticleRowsFrom(c) ==
    IF c > NumArticles THEN <<>> ELSE ArticleRowsOf(c) \o ArticleRowsFrom(c + 1)

\* SELECT c.link_id, a.id, a.categories, a.article_summary
\* FROM analysis a JOIN contents c ON a.content_id = c.id WHERE ...
get_articles_with_categories == ArticleRowsFrom(1)

\* articles_by_link_id = {a["link_id"]: a for a in articles}: the last one wins
articles_by_link_id(articles, link_id) ==
    LET k == CHOOSE i \in 1..Len(articles) :
                 /\ articles[i].link_id = link_id
                 /\ \A j \in (i + 1)..Len(articles) : articles[j].link_id # link_id
    IN  articles[k]

\* int(time.time()): the clock reads the number of the Matcher run under way
Now == runs.matcher

\* a new row of user_articles; is_sent and is_read are not among the inserted
\* columns and take the column default, 0
NewUserArticle(matched_json, relevance_score) ==
    [matched_categories |-> Some(matched_json), relevance_score |-> relevance_score,
     is_sent |-> FALSE, is_read |-> FALSE, created_at |-> Now]

\* an insert with no ON CONFLICT clause on a table with no unique key: every
\* call adds a row
InsertAlways(ua, user_id, article_id, matched_categories, relevance_score) ==
    [ua EXCEPT ![<<user_id, article_id>>] =
        Append(@, NewUserArticle(JsonDumps(matched_categories), relevance_score))]

\* an insert with ON CONFLICT DO NOTHING: an existing row is kept as it is
InsertOrIgnore(ua, user_id, article_id, matched_categories, relevance_score) ==
    IF ua[<<user_id, article_id>>] # <<>> THEN ua
    ELSE [ua EXCEPT ![<<user_id, article_id>>] =
             <<NewUserArticle(JsonDumps(matched_categories), relevance_score)>>]

\* an insert with INSERT OR REPLACE: the row in conflict gives way to the new one
InsertOrReplace(ua, user_id, article_id, matched_categories, relevance_score) ==
    [ua EXCEPT ![<<user_id, article_id>>] =
        <<NewUserArticle(JsonDumps(matched_categories), relevance_score)>>]

\* an upsert with relevance_score = COALESCE(excluded.relevance_score,
\* relevance_score): a score that is stored outlives a run that derives none
InsertKeepingScore(ua, user_id, article_id, matched_categories, relevance_score) ==
    LET key == <<user_id, article_id>>
        matched_json == JsonDumps(matched_categories)
    IN  IF ua[key] # <<>>
        THEN [ua EXCEPT ![key] =
                 [i \in 1..Len(@) |->
                     [@[i] EXCEPT !.matched_categories = Some(matched_json),
                                  !.relevance_score =
                                      IF IsNull(relevance_score) THEN @ ELSE relevance_score]]]
        ELSE [ua EXCEPT ![key] = <<NewUserArticle(matched_json, relevance_score)>>]

\* INSERT INTO user_articles (...) VALUES (...)
\* ON CONFLICT(user_id, article_id) DO UPDATE SET
\*     matched_categories = excluded.matched_categories,
\*     relevance_score = excluded.relevance_score
insert_user_article(ua, user_id, article_id, matched_categories, relevance_score) ==
    LET key == <<user_id, article_id>>
        matched_json == JsonDumps(matched_categories)
    IN  IF ua[key] # <<>>
        THEN [ua EXCEPT ![key] =
                 [i \in 1..Len(@) |->
                     [@[i] EXCEPT !.matched_categories = Some(matched_json),
                                  !.relevance_score = relevance_score]]]
        ELSE [ua EXCEPT ![key] = <<NewUserArticle(matched_json, relevance_score)>>]

ScoreMin == 0
ScoreMax == 50
Min2(a, b) == IF a <= b THEN a ELSE b
Max2(a, b) == IF a >= b THEN a ELSE b
\* min(5.0, result.relevance) alone: nothing holds a negative output up
ClampAbove(x) == Min2(ScoreMax, x)

\* max(0.0, min(5.0, result.relevance))
ClampRelevance(x) == Max2(ScoreMin, Min2(ScoreMax, x))

\* calculate_relevance's early return: no derivation call is made
RelevanceSkipped(user_description, article_summary) ==
    user_description = EmptyText \/ article_summary = EmptyText

\* calculate_relevance; outcome is what RelevanceScore.run yields when it is called
calculate_relevance(outcome, user_description, article_summary) ==
    IF RelevanceSkipped(user_description, article_summary) THEN Null
    ELSE IF IsNull(outcome) THEN Null
    ELSE Some(ClampRelevance(Val(outcome)))

\* main's own test before it calls calculate_relevance
WantsRelevance(user_description, article_summary) ==
    user_description # EmptyText /\ article_summary # EmptyText

\* a main that asks for a relevance score whatever the intersection is
RelevanceInvokedAnyMatch(matched, user_description, article_summary) ==
    /\ WantsRelevance(user_description, article_summary)
    /\ ~RelevanceSkipped(user_description, article_summary)

\* main, lines 261-285: whether this pair reaches RelevanceScore.run
relevance_invoked(matched, user_description, article_summary) ==
    /\ matched # <<>>
    /\ WantsRelevance(user_description, article_summary)
    /\ ~RelevanceSkipped(user_description, article_summary)

\* main, lines 261-285: the relevance_score handed to insert_user_article
relevance_for(matched, user_description, article_summary, outcome) ==
    IF matched = <<>> THEN Null
    ELSE IF WantsRelevance(user_description, article_summary)
    THEN calculate_relevance(outcome, user_description, article_summary)
    ELSE Null

NoStep == Null

\* main, up to the loops: both tables are read once
MatcherStart ==
    /\ m_pc = "idle"
    /\ LET us == get_users_with_categories
           arts == get_articles_with_categories
       IN  IF us = <<>>
           THEN /\ m_pc' = "done"
                /\ UNCHANGED <<m_users, m_articles, m_ui, m_ai>>
           ELSE /\ m_users' = us
                /\ m_articles' = arts
                /\ m_ui' = 1
                /\ m_ai' = 1
                /\ m_pc' = IF arts = <<>> THEN "done" ELSE "loop"
    /\ m_last' = NoStep
    /\ UNCHANGED <<users, analysis, user_articles, m_tx, digestVars>>

\* where the two nested for loops stand after one more article
MatcherAdvance ==
    IF m_ai < Len(m_articles)
    THEN m_ai' = m_ai + 1 /\ m_ui' = m_ui /\ m_pc' = "loop"
    ELSE /\ m_ai' = 1
         /\ m_ui' = m_ui + 1
         /\ m_pc' = IF m_ui < Len(m_users) THEN "loop" ELSE "done"

\* main, lines 261-285: the pair in hand reaches RelevanceScore.run
PairNeedsCall ==
    LET user == m_users[m_ui]
        article == articles_by_link_id(m_articles, m_articles[m_ai].link_id)
        common == Range(user.categories) \cap Range(article.categories)
    IN  \E matched \in Orderings(common) :
            relevance_invoked(matched, user.custom_description, article.article_summary)

\* calculate_relevance: RelevanceScore.run is called and has not returned
MatcherAsk ==
    /\ m_pc = "loop"
    /\ PairNeedsCall
    /\ m_pc' = "call"
    /\ UNCHANGED <<users, analysis, user_articles, m_users, m_articles, m_ui, m_ai,
                   m_last, m_tx, digestVars>>

\* a main that commits once, after the loops
MatcherPairCommitLater ==
    /\ \/ m_pc = "loop" /\ ~PairNeedsCall
       \/ m_pc = "call"
    /\ LET user == m_users[m_ui]
           article_id == m_articles[m_ai].link_id
           article == articles_by_link_id(m_articles, article_id)
           common == Range(user.categories) \cap Range(article.categories)
           desc == user.custom_description
           summary == article.article_summary
           table == IF IsNull(m_tx) THEN user_articles ELSE Val(m_tx).table
       IN  \E matched \in Orderings(common) :
           \E outcome \in IF relevance_invoked(matched, desc, summary)
                          THEN RelevanceOutcomes ELSE {Null} :
              m_tx' = Some([table |->
                                insert_user_article(table, user.id, article_id, matched,
                                    relevance_for(matched, desc, summary, outcome)),
                            step |-> [user |-> user.id, article |-> article_id,
                                      matched |-> matched,
                                      invoked |-> relevance_invoked(matched, desc, summary),
                                      outcome |-> outcome]])
    /\ IF m_ai < Len(m_articles) \/ m_ui < Len(m_users)
       THEN /\ m_pc' = "loop"
            /\ m_ai' = IF m_ai < Len(m_articles) THEN m_ai + 1 ELSE 1
            /\ m_ui' = IF m_ai < Len(m_articles) THEN m_ui ELSE m_ui + 1
       ELSE m_pc' = "commit" /\ UNCHANGED <<m_ui, m_ai>>
    /\ UNCHANGED <<users, analysis, user_articles, m_users, m_articles, m_last, digestVars>>

\* one iteration of "for a in articles" for the current user, up to the
\* INSERT of insert_user_article
MatcherPair ==
    /\ \/ m_pc = "loop" /\ ~PairNeedsCall
       \/ m_pc = "call"
    /\ LET user == m_users[m_ui]
           article_id == m_articles[m_ai].link_id
           article == articles_by_link_id(m_articles, article_id)
           common == Range(user.categories) \cap Range(article.categories)
           desc == user.custom_description
           summary == article.article_summary
       IN  \E matched \in Orderings(common) :
           \E outcome \in IF relevance_invoked(matched, desc, summary)
                          THEN RelevanceOutcomes ELSE {Null} :
              m_tx' = Some([table |->
                                insert_user_article(user_articles, user.id, article_id,
                                    matched,
                                    relevance_for(matched, desc, summary, outcome)),
                            step |-> [user |-> user.id, article |-> article_id,
                                      matched |-> matched,
                                      invoked |-> relevance_invoked(matched, desc, summary),
                                      outcome |-> outcome]])
    /\ m_pc' = "commit"
    /\ UNCHANGED <<users, analysis, user_articles, m_users, m_articles, m_ui, m_ai,
                   m_last, digestVars>>

\* insert_user_article: await db.commit(), and the loop goes on
MatcherCommit ==
    /\ m_pc = "commit"
    /\ user_articles' = Val(m_tx).table
    /\ m_last' = Some(Val(m_tx).step)
    /\ m_tx' = Null
    /\ MatcherAdvance
    /\ UNCHANGED <<users, analysis, m_users, m_articles, digestVars>>

\* the final report is printed and the process ends
MatcherExit ==
    /\ m_pc = "done"
    /\ m_pc' = "idle"
    /\ m_users' = <<>>
    /\ m_articles' = <<>>
    /\ m_ui' = 1
    /\ m_ai' = 1
    /\ m_last' = NoStep
    /\ UNCHANGED <<users, analysis, user_articles, m_tx, digestVars>>


\* ================================================================= digest.py
EmptyJson == <<"[", "]">>

\* SELECT DISTINCT u.id, ... FROM users u JOIN user_articles ua ON u.id = ua.user_id
\* WHERE u.is_active = 1 AND ua.is_sent = 0 ORDER BY u.id
get_users_with_unsent_articles ==
    SortedSeq({u \in Users :
                  /\ users[u].is_active
                  /\ \E id \in AllRowIds : id[1] = u /\ ~Row(id).is_sent})

\* the selection with matched_categories != '' in place of != '[]'
UnsentMatchedNotBlank(ua, user_id) ==
    {id \in IdsOf(ua) :
        /\ id[1] = user_id
        /\ ~RowOf(ua, id).is_sent
        /\ ~IsNull(RowOf(ua, id).matched_categories)
        /\ Val(RowOf(ua, id).matched_categories) # EmptyText}

\* WHERE ua.user_id = ? AND ua.is_sent = 0
\*   AND ua.matched_categories IS NOT NULL AND ua.matched_categories != '[]'
UnsentMatched(ua, user_id) ==
    {id \in IdsOf(ua) :
        /\ id[1] = user_id
        /\ ~RowOf(ua, id).is_sent
        /\ ~IsNull(RowOf(ua, id).matched_categories)
        /\ Val(RowOf(ua, id).matched_categories) # EmptyJson}

\* ORDER BY ua.relevance_score DESC: q[i] may precede q[j]; NULL sorts last
DescOrdered(x, y) ==
    \/ IsNull(y)
    \/ ~IsNull(x) /\ Val(x) >= Val(y)

\* the query with ORDER BY ua.relevance_score: ascending, NULL first
UnsentAscending(ua, user_id) ==
    {q \in Orderings(UnsentMatched(ua, user_id)) :
        \A i, j \in 1..Len(q) :
            i < j => DescOrdered(RowOf(ua, q[j]).relevance_score,
                                 RowOf(ua, q[i]).relevance_score)}

\* get_unsent_articles_for_user: the row lists the query may return (rows with
\* equal scores come in either order)
get_unsent_articles_for_user(ua, user_id) ==
    {q \in Orderings(UnsentMatched(ua, user_id)) :
        \A i, j \in 1..Len(q) :
            i < j => DescOrdered(RowOf(ua, q[i]).relevance_score,
                                 RowOf(ua, q[j]).relevance_score)}

\* UPDATE user_articles SET is_sent = 1 WHERE id IN (...)
mark_articles_as_sent(ua, user_article_ids) ==
    [p \in Pairs |->
        [k \in 1..Len(ua[p]) |->
            IF <<p[1], p[2], k>> \in user_article_ids
            THEN [ua[p][k] EXCEPT !.is_sent = TRUE]
            ELSE ua[p][k]]]

\* the update without "user_id = ?": every user's empty matches are marked
MarkEmptyAllUsers(ua, user_id) ==
    [p \in Pairs |->
        [k \in 1..Len(ua[p]) |->
            IF /\ ~ua[p][k].is_sent
               /\ \/ IsNull(ua[p][k].matched_categories)
                  \/ Val(ua[p][k].matched_categories) = EmptyJson
            THEN [ua[p][k] EXCEPT !.is_sent = TRUE]
            ELSE ua[p][k]]]

\* UPDATE user_articles SET is_sent = 1 WHERE user_id = ? AND is_sent = 0
\*   AND (matched_categories IS NULL OR matched_categories = '[]')
mark_empty_categories_as_sent(ua, user_id) ==
    [p \in Pairs |->
        [k \in 1..Len(ua[p]) |->
            IF /\ p[1] = user_id
               /\ ~ua[p][k].is_sent
               /\ \/ IsNull(ua[p][k].matched_categories)
                  \/ Val(ua[p][k].matched_categories) = EmptyJson
            THEN [ua[p][k] EXCEPT !.is_sent = TRUE]
            ELSE ua[p][k]]]

\* mail.send raises only when the settings are missing; an error of
\* ses.send_email is logged and swallowed
MailSendRaises(outcome) == outcome = "config_error"

NoTable == [p \in Pairs |-> <<>>]

\* main: users = get_users_with_unsent_articles()
DigestStart ==
    /\ d_pc = "idle"
    /\ LET us == get_users_with_unsent_articles
       IN  /\ d_users' = us
           /\ d_pc' = IF us = <<>> THEN "done" ELSE "read"
    /\ d_i' = 1
    /\ UNCHANGED <<users, analysis, user_articles, matcherVars,
                   d_articles, d_mail, d_pre, d_tx, d_log>>

\* a main without "if not articles: continue"
DigestReadAlwaysSends ==
    /\ d_pc = "read"
    /\ \E articles \in get_unsent_articles_for_user(user_articles, d_users[d_i]) :
          /\ d_articles' = articles
          /\ d_pc' = "send"
    /\ d_pre' = user_articles
    /\ d_mail' = "none"
    /\ UNCHANGED <<users, analysis, user_articles, matcherVars, d_users, d_i, d_tx, d_log>>

\* main: articles = get_unsent_articles_for_user(user_id); none: continue
DigestRead ==
    /\ d_pc = "read"
    /\ \E articles \in get_unsent_articles_for_user(user_articles, d_users[d_i]) :
          /\ d_articles' = articles
          /\ d_pc' = IF articles = <<>> THEN "next" ELSE "send"
    /\ d_pre' = user_articles
    /\ d_mail' = "none"
    /\ UNCHANGED <<users, analysis, user_articles, matcherVars, d_users, d_i, d_tx, d_log>>

\* the log after a digest that lists the rows articles was accepted
Logged(log, articles) ==
    [p \in Pairs |->
        IF \E k \in 1..Len(articles) : articles[k][1] = p[1] /\ articles[k][2] = p[2]
        THEN [log[p] EXCEPT !.delivered = @ + 1] ELSE log[p]]

\* a Dispatcher that is stopped once mail.send has returned: the run ends
\* with nothing marked
DigestSendThenStopped ==
    /\ d_pc = "send"
    /\ \E outcome \in MailOutcomes :
          /\ d_mail' = outcome
          /\ d_pc' = IF MailSendRaises(outcome) THEN "next" ELSE "done"
          /\ d_log' = IF outcome = "delivered" THEN Logged(d_log, d_articles) ELSE d_log
    /\ UNCHANGED <<users, analysis, user_articles, matcherVars,
                   d_users, d_i, d_articles, d_pre, d_tx>>

\* send_digest_to_user: generate_html_email, then mail.send
DigestSend ==
    /\ d_pc = "send"
    /\ \E outcome \in MailOutcomes :
          /\ d_mail' = outcome
          /\ d_pc' = IF MailSendRaises(outcome) THEN "next" ELSE "mark"
          /\ d_log' = IF outcome = "delivered" THEN Logged(d_log, d_articles) ELSE d_log
    /\ UNCHANGED <<users, analysis, user_articles, matcherVars,
                   d_users, d_i, d_articles, d_pre, d_tx>>

\* mark_articles_as_sent: the UPDATE
DigestMark ==
    /\ d_pc = "mark"
    /\ d_tx' = Some(mark_articles_as_sent(user_articles, Range(d_articles)))
    /\ d_pc' = "mark_commit"
    /\ UNCHANGED <<users, analysis, user_articles, matcherVars,
                   d_users, d_i, d_articles, d_mail, d_pre, d_log>>

\* mark_articles_as_sent: conn.commit(); conn.close()
DigestMarkCommit ==
    /\ d_pc = "mark_commit"
    /\ user_articles' = Val(d_tx)
    /\ d_tx' = Null
    /\ d_pc' = "mark_empty"
    /\ UNCHANGED <<users, analysis, matcherVars,
                   d_users, d_i, d_articles, d_mail, d_pre, d_log>>

\* mark_empty_categories_as_sent: the UPDATE
DigestMarkEmpty ==
    /\ d_pc = "mark_empty"
    /\ d_tx' = Some(mark_empty_categories_as_sent(user_articles, d_users[d_i]))
    /\ d_pc' = "mark_empty_commit"
    /\ UNCHANGED <<users, analysis, user_articles, matcherVars,
                   d_users, d_i, d_articles, d_mail, d_pre, d_log>>

\* mark_empty_categories_as_sent: conn.commit(); conn.close(); return True
DigestMarkEmptyCommit ==
    /\ d_pc = "mark_empty_commit"
    /\ user_articles' = Val(d_tx)
    /\ d_log' = [p \in Pairs |->
                    IF Val(d_tx)[p] # user_articles[p]
                    THEN [d_log[p] EXCEPT !.marked_empty = TRUE] ELSE d_log[p]]
    /\ d_tx' = Null
    /\ d_pc' = "next"
    /\ UNCHANGED <<users, analysis, matcherVars,
                   d_users, d_i, d_articles, d_mail, d_pre>>

\* main: the for loop moves to the next user
DigestNext ==
    /\ d_pc = "next"
    /\ d_i' = d_i + 1
    /\ d_pc' = IF d_i < Len(d_users) THEN "read" ELSE "done"
    /\ d_articles' = <<>>
    /\ d_mail' = "none"
    /\ d_pre' = NoTable
    /\ UNCHANGED <<users, analysis, user_articles, matcherVars, d_users, d_tx, d_log>>

\* main: the summary is logged and the process ends
DigestExit ==
    /\ d_pc = "done"
    /\ d_pc' = "idle"
    /\ d_users' = <<>>
    /\ d_i' = 1
    /\ UNCHANGED <<users, analysis, user_articles, matcherVars,
                   d_articles, d_mail, d_pre, d_tx, d_log>>

\* ==================================================================== api.py
\* POST /api/profile/: topics is non-empty and holds valid slugs only
update_profile(u, topics, customDescription) ==
    /\ topics # <<>>
    /\ Range(topics) \subseteq ValidSlugs
    /\ users' = [users EXCEPT ![u].categories = Join(topics, <<",">>),
                              ![u].custom_description = customDescription]
    /\ UNCHANGED <<analysis, user_articles, matcherVars, digestVars>>

UpdateProfileOf(u) ==
    \E p \in Profiles :
        /\ users[u].categories # Join(p[1], <<",">>) \/ users[u].custom_description # p[2]
        /\ update_profile(u, p[1], p[2])

UpdateProfile == \E u \in Users : UpdateProfileOf(u)

\* GET /api/articles/{article_id}/: the first row of the pair with a non-empty
\* match set is returned and, when unread, marked read
get_article(u, a) ==
    LET found == {id \in AllRowIds :
                     /\ id[1] = u /\ id[2] = a
                     /\ ~IsNull(Row(id).matched_categories)
                     /\ Val(Row(id).matched_categories) # EmptyJson}
    IN  /\ found # {}
        /\ LET id == CHOOSE x \in found : \A y \in found : x[3] <= y[3]
           IN  /\ ~Row(id).is_read
               /\ user_articles' =
                      [user_articles EXCEPT ![<<u, a>>][id[3]].is_read = TRUE]
        /\ UNCHANGED <<users, analysis, matcherVars, digestVars>>

GetArticle == \E u \in Users, a \in Articles : get_article(u, a)

\* ================================================================== score.py
\* what ArticleScores.run and ConfidenceScore.run yield: Null when the call
\* raises, else the numbers returned (tenths)
ScoresOutcomes ==
    {Null, Some([controversial |-> 67, trustworthy |-> -12, sentiment |-> 25])}
ConfidenceOutcomes == {Null, Some(67), Some(40)}

\* the rows get_unscored_contents yields for content c:
\* contents LEFT JOIN analysis WHERE c.article IS NOT NULL
\*   AND (a.id IS NULL OR a.scores IS NULL)
UnscoredRowsOf(c) ==
    LET base == [id |-> c, article |-> contents[c].article,
                 comments |-> contents[c].comments, article_summary |-> Null]
        open == SelectSeq(analysis[c], LAMBDA r : IsNull(r.scores))
    IN  IF IsNull(contents[c].article) THEN <<>>
        ELSE IF analysis[c] = <<>> THEN <<base>>
        ELSE [i \in 1..Len(open) |->
                 [base EXCEPT !.article_summary = open[i].article_summary]]

RECURSIVE UnscoredRowsFrom(_)
UnscoredRowsFrom(c) ==
    IF c > NumArticles THEN <<>> ELSE UnscoredRowsOf(c) \o UnscoredRowsFrom(c + 1)

get_unscored_contents == UnscoredRowsFrom(1)

\* truncate_text(text, max_chars = 15000)
MaxChars == 15000
TruncatedMark == <<"~">>
truncate_text(text) ==
    IF IsNull(text) \/ text = Some(EmptyText) THEN EmptyText
    ELSE IF Len(Val(text)) <= MaxChars THEN Val(text)
    ELSE SubSeq(Val(text), 1, MaxChars) \o TruncatedMark

\* a score_content that calls ArticleScores.run for an empty article too
ScoreInvokedAlways(content) == TRUE

\* score_content calls ArticleScores.run unless the article is empty
score_invoked(content) == truncate_text(content.article) # EmptyText
score_content(content, outcome) ==
    IF ~score_invoked(content) THEN Null ELSE outcome

\* a compute_confidence that looks at the article only
ConfidenceInvokedAnySummary(content) == truncate_text(content.article) # EmptyText

\* compute_confidence calls ConfidenceScore.run unless the article or the
\* summary is missing or empty
confidence_invoked(content) ==
    /\ truncate_text(content.article) # EmptyText
    /\ ~IsNull(content.article_summary)
    /\ Val(content.article_summary) # EmptyText
compute_confidence(content, outcome) ==
    IF ~confidence_invoked(content) THEN Null ELSE outcome

\* json.dumps(scores_dict): the keys in the order save_scores puts them
ScoresJson(scores, confidence) ==
    <<<<"controversial", scores.controversial>>,
      <<"trustworthy", scores.trustworthy>>,
      <<"sentiment", scores.sentiment>>>>
    \o (IF IsNull(confidence) THEN <<>> ELSE <<<<"confidence", Val(confidence)>>>>)

\* a save_scores that writes the row anew: INSERT OR REPLACE INTO analysis
\* (content_id, scores)
SaveScoresReplacingRow(an, content_id, scores, confidence) ==
    [an EXCEPT ![content_id] =
        <<AnalysisRow(Null, Null, Null, Some(ScoresJson(scores, confidence)))>>]

\* save_scores: UPDATE analysis SET scores = ? WHERE content_id = ? when a row
\* exists, else INSERT INTO analysis (content_id, scores)
save_scores(an, content_id, scores, confidence) ==
    LET scores_json == ScoresJson(scores, confidence)
    IN  IF an[content_id] # <<>>
        THEN [an EXCEPT ![content_id] =
                 [k \in 1..Len(@) |-> [@[k] EXCEPT !.scores = Some(scores_json)]]]
        ELSE [an EXCEPT ![content_id] =
                 <<AnalysisRow(Null, Null, Null, Some(scores_json))>>]

\* main: contents = await get_unscored_contents(db)
ScoreStart ==
    /\ s_pc = "idle"
    /\ s_contents' = get_unscored_contents
    /\ s_i' = 1
    /\ s_pc' = IF get_unscored_contents = <<>> THEN "done" ELSE "loop"
    /\ UNCHANGED <<s_last, analysis, contents, analyzeVars>>

\* main: one turn of "for i, content in enumerate(contents)"
ScoreContent ==
    /\ s_pc = "loop"
    /\ LET content == s_contents[s_i]
       IN  \E so \in (IF score_invoked(content) THEN ScoresOutcomes ELSE {Null}),
              co \in (IF confidence_invoked(content) THEN ConfidenceOutcomes ELSE {Null}) :
               LET scores == score_content(content, so)
                   confidence == compute_confidence(content, co)
               IN  /\ IsNull(scores) => (co = Null /\ UNCHANGED analysis)
                   /\ ~IsNull(scores) =>
                          analysis' = save_scores(analysis, content.id, Val(scores), confidence)
                   /\ s_last' = Some([id |-> content.id,
                                      article_summary |-> content.article_summary,
                                      scores |-> scores,
                                      confidence_invoked |->
                                          ~IsNull(scores) /\ confidence_invoked(content),
                                      confidence |-> confidence])
    /\ s_i' = s_i + 1
    /\ s_pc' = IF s_i = Len(s_contents) THEN "done" ELSE "loop"
    /\ UNCHANGED <<s_contents, contents, analyzeVars>>

\* main returns
ScoreExit ==
    /\ s_pc = "done"
    /\ s_pc' = "idle" /\ s_contents' = <<>> /\ s_i' = 1
    /\ UNCHANGED <<s_last, analysis, contents, analyzeVars>>

\* ================================================================ analyze.py
\* what summarize_article, summarize_comments and categorize yield for a
\* content: the text that ask returns, or Null when ask raises
AnalyzeOutcomes ==
    [article_summary : {Null, Some(<<"s">>)},
     comments_summary : {Null, Some(<<"t">>)},
     categories : {Null, Some(<<"a", ",", " ", "b">>)}]

\* asyncio.gather hands back the three results when none of the calls raised,
\* and raises otherwise
Gathered(o) ==
    ~IsNull(o.article_summary) /\ ~IsNull(o.comments_summary) /\ ~IsNull(o.categories)

\* the analysis table: its schema puts no uniqueness constraint on content_id
AnalysisContentIdUnique == FALSE

\* SELECT c.id, c.article, c.comments FROM contents c LEFT JOIN analysis a ...
\* WHERE c.article IS NOT NULL AND c.article != '' AND a.id IS NULL
get_contents_to_analyze ==
    SortedSeq({c \in Articles : /\ ~IsNull(contents[c].article)
                                /\ Val(contents[c].article) # EmptyText
                                /\ analysis[c] = <<>>})

\* INSERT INTO analysis (content_id, article_summary, comments_summary, categories)
save_analysis(an, content_id, article_summary, comments_summary, categories) ==
    [an EXCEPT ![content_id] =
        Append(@, AnalysisRow(Some(article_summary), Some(comments_summary),
                              Some(categories), Null))]

\* generate_summaries: contents = await get_contents_to_analyze(db)
AnalyzeStart ==
    /\ a_pc = "idle"
    /\ a_contents' = get_contents_to_analyze
    /\ a_i' = 1
    /\ a_pc' = IF get_contents_to_analyze = <<>> THEN "done" ELSE "loop"
    /\ UNCHANGED <<a_last, analysis, contents, scoreVars>>

\* generate_summaries: one turn of "for i, (content_id, ...) in enumerate(contents)":
\* the three calls gathered, one save_analysis when none raised, and the
\* except branch otherwise, also when the INSERT raises
AnalyzeContent ==
    /\ a_pc = "loop"
    /\ \E o \in AnalyzeOutcomes :
           /\ IF Gathered(o) /\ ~(AnalysisContentIdUnique /\ analysis[a_contents[a_i]] # <<>>)
              THEN analysis' = save_analysis(analysis, a_contents[a_i],
                                             Val(o.article_summary),
                                             Val(o.comments_summary), Val(o.categories))
              ELSE UNCHANGED analysis
           /\ a_last' = Some([id |-> a_contents[a_i], outcome |-> o])
    /\ a_i' = a_i + 1
    /\ a_pc' = IF a_i = Len(a_contents) THEN "done" ELSE "loop"
    /\ UNCHANGED <<a_contents, contents, scoreVars>>

\* generate_summaries returns
AnalyzeExit ==
    /\ a_pc = "done"
    /\ a_pc' = "idle" /\ a_contents' = <<>> /\ a_i' = 1
    /\ UNCHANGED <<a_last, analysis, contents, scoreVars>>

\* ================================================================= scrape.py
BATCH_SIZE == 5

\* what the page behind a link holds: every third one is empty, the others
\* differ from link to link
PageText(link_id) == IF link_id % 3 = 0 THEN EmptyText ELSE <<"x", ToString(link_id)>>

\* what crawl_url meets for a link: the actor call raises, the run has no
\* dataset or no item (None), or the markdown of the page comes back
CrawlOutcomes(link_id) ==
    {[raised |-> TRUE, value |-> Null], [raised |-> FALSE, value |-> Null],
     [raised |-> FALSE, value |-> Some(PageText(link_id))]}

\* the selection with "c.article IS NULL OR c.article = ''"
LinksNullOrBlank ==
    LET open == SelectSeq(contents,
                    LAMBDA c : /\ c.article \in {Null, Some(EmptyText)}
                               /\ c.link_id \in DOMAIN links)
    IN  [i \in 1..Len(open) |-> open[i].link_id]

\* SELECT l.id, l.url FROM links l JOIN contents c ON l.id = c.link_id
\* WHERE c.article IS NULL
get_links_to_crawl ==
    LET open == SelectSeq(contents,
                    LAMBDA c : IsNull(c.article) /\ c.link_id \in DOMAIN links)
    IN  [i \in 1..Len(open) |-> open[i].link_id]

\* a crawl_batch that pairs the results with the links in reverse
CrawlBatchReversed(batch, outcomes) ==
    [k \in 1..Len(batch) |->
        [link_id |-> batch[Len(batch) + 1 - k],
         article |-> IF outcomes[k].raised THEN Null ELSE outcomes[k].value]]

\* crawl_batch: gather(..., return_exceptions=True); an exception becomes None
crawl_batch(batch, outcomes) ==
    [k \in 1..Len(batch) |->
        [link_id |-> batch[k],
         article |-> IF outcomes[k].raised THEN Null ELSE outcomes[k].value]]

\* a store_results that stops at the first None
RECURSIVE StoreUntilNone(_, _)
StoreUntilNone(cont, results) ==
    IF results = <<>> \/ IsNull(Head(results).article) THEN cont
    ELSE StoreUntilNone(
             [i \in 1..Len(cont) |->
                 IF cont[i].link_id = Head(results).link_id
                 THEN [cont[i] EXCEPT !.article = Head(results).article]
                 ELSE cont[i]],
             Tail(results))

\* store_results: UPDATE contents SET article = ? WHERE link_id = ? for every
\* result that is not None, then one commit
RECURSIVE store_results(_, _)
store_results(cont, results) ==
    IF results = <<>> THEN cont
    ELSE IF IsNull(Head(results).article) THEN store_results(cont, Tail(results))
    ELSE store_results(
             [i \in 1..Len(cont) |->
                 IF cont[i].link_id = Head(results).link_id
                 THEN [cont[i] EXCEPT !.article = Head(results).article]
                 ELSE cont[i]],
             Tail(results))

\* the runs of the Content Extractor, each with a connection of its own
Crawlers == {1, 2}

\* main: links[i : i + BATCH_SIZE]
Batch(p) == SubSeq(c_links[p], c_i[p], Min2(c_i[p] + BATCH_SIZE - 1, Len(c_links[p])))

\* the crawls of run p that have been started and have not returned
InFlight(p) == {k \in 1..Len(c_tasks[p]) : IsNull(c_tasks[p][k])}

\* main: links = await get_links_to_crawl(db)
ScrapeStart(p) ==
    /\ c_pc[p] = "idle"
    /\ c_links' = [c_links EXCEPT ![p] = get_links_to_crawl]
    /\ c_i' = [c_i EXCEPT ![p] = 1]
    /\ c_pc' = [c_pc EXCEPT ![p] = IF get_links_to_crawl = <<>> THEN "done" ELSE "crawl"]
    /\ c_results' = [c_results EXCEPT ![p] = <<>>]
    /\ c_outcomes' = [c_outcomes EXCEPT ![p] = <<>>]
    /\ c_pre' = [c_pre EXCEPT ![p] = <<>>]
    /\ UNCHANGED <<c_tasks, c_tx, contents, links>>

\* a main that hands every selected link to crawl_batch at once
ScrapeLaunchAll(p) ==
    /\ c_pc[p] = "crawl"
    /\ c_tasks' = [c_tasks EXCEPT ![p] = [k \in 1..(Len(c_links[p]) - c_i[p] + 1) |-> Null]]
    /\ c_pc' = [c_pc EXCEPT ![p] = "gather"]
    /\ c_pre' = [c_pre EXCEPT ![p] = <<>>]
    /\ UNCHANGED <<c_links, c_i, c_results, c_tx, c_outcomes, contents, links>>

\* crawl_batch: tasks = [crawl_url(client, url) for _, url in batch], started
\* together by asyncio.gather
ScrapeLaunch(p) ==
    /\ c_pc[p] = "crawl"
    /\ c_tasks' = [c_tasks EXCEPT ![p] = [k \in 1..Len(Batch(p)) |-> Null]]
    /\ c_pc' = [c_pc EXCEPT ![p] = "gather"]
    /\ c_pre' = [c_pre EXCEPT ![p] = <<>>]
    /\ UNCHANGED <<c_links, c_i, c_results, c_tx, c_outcomes, contents, links>>

\* crawl_url: one of the running crawls returns or raises, in any order
ScrapeFinish(p) ==
    /\ c_pc[p] = "gather"
    /\ \E k \in InFlight(p) : \E o \in CrawlOutcomes(Batch(p)[k]) :
           c_tasks' = [c_tasks EXCEPT ![p][k] = Some(o)]
    /\ UNCHANGED <<c_pc, c_links, c_i, c_results, c_tx, c_outcomes, c_pre, contents, links>>

\* crawl_batch: gather returns once every crawl is through, its results in
\* the order of the tasks
ScrapeGather(p) ==
    /\ c_pc[p] = "gather"
    /\ InFlight(p) = {}
    /\ LET outcomes == [k \in 1..Len(c_tasks[p]) |-> Val(c_tasks[p][k])]
       IN  /\ c_results' = [c_results EXCEPT ![p] = crawl_batch(Batch(p), outcomes)]
           /\ c_outcomes' = [c_outcomes EXCEPT ![p] =
                                [k \in 1..Len(outcomes) |->
                                    [link_id |-> Batch(p)[k], raised |-> outcomes[k].raised,
                                     value |-> outcomes[k].value]]]
    /\ c_tasks' = [c_tasks EXCEPT ![p] = <<>>]
    /\ c_pc' = [c_pc EXCEPT ![p] = "store"]
    /\ UNCHANGED <<c_links, c_i, c_tx, c_pre, contents, links>>

\* store_results: the UPDATEs, inside the run's write transaction, which
\* waits for any other writer to commit
ScrapeUpdate(p) ==
    /\ c_pc[p] = "store"
    /\ \A q \in Crawlers \ {p} : IsNull(c_tx[q])
    /\ c_tx' = [c_tx EXCEPT ![p] = Some(store_results(contents, c_results[p]))]
    /\ c_pc' = [c_pc EXCEPT ![p] = "commit"]
    /\ UNCHANGED <<c_links, c_i, c_results, c_tasks, c_outcomes, c_pre, contents, links>>

\* store_results: await db.commit(), and main goes on to the next batch
ScrapeCommit(p) ==
    /\ c_pc[p] = "commit"
    /\ contents' = Val(c_tx[p])
    /\ c_tx' = [c_tx EXCEPT ![p] = Null]
    /\ c_pre' = [c_pre EXCEPT ![p] = contents]
    /\ c_i' = [c_i EXCEPT ![p] = @ + BATCH_SIZE]
    /\ c_pc' = [c_pc EXCEPT ![p] =
                   IF c_i[p] + BATCH_SIZE > Len(c_links[p]) THEN "done" ELSE "crawl"]
    /\ UNCHANGED <<c_links, c_results, c_tasks, c_outcomes, links>>

\* main returns
ScrapeExit(p) ==
    /\ c_pc[p] = "done"
    /\ c_pc' = [c_pc EXCEPT ![p] = "idle"]
    /\ c_links' = [c_links EXCEPT ![p] = <<>>]
    /\ c_i' = [c_i EXCEPT ![p] = 1]
    /\ c_results' = [c_results EXCEPT ![p] = <<>>]
    /\ c_outcomes' = [c_outcomes EXCEPT ![p] = <<>>]
    /\ c_pre' = [c_pre EXCEPT ![p] = <<>>]
    /\ UNCHANGED <<c_tasks, c_tx, contents, links>>

\* ================================================================= ingest.py
\* the replies under the story are 1..NumComments; 0 stands for the story
Comments == 1..NumComments

\* the shapes a reply tree takes: who each reply answers
TreeShapes ==
    {[n \in Comments |-> n - 1],             \* one thread, each reply under the last
     [n \in Comments |-> n \div 2],          \* two answers to every reply
     [n \in Comments |-> 0],                 \* top-level replies only
     [n \in Comments |-> IF n <= 2 THEN 0 ELSE n - 2]}   \* two threads

\* how the source reports a reply: live, flagged deleted, flagged dead, or the
\* request for it fails
ReplyStates == {"live", "deleted", "dead", "failed"}

\* every source the Source Fetcher is run against
Sources ==
    [parent : TreeShapes, status : [Comments -> ReplyStates],
     max_depth : 0..MaxCommentDepth]

\* a source with no reply at all
QuietSource ==
    [parent |-> [n \in Comments |-> 0], status |-> [n \in Comments |-> "failed"],
     max_depth |-> 0]

\* item["kids"]: the replies to p, in the source's order
Kids(p) == SortedSeq({n \in Comments : hn.parent[n] = p})

\* fetch_item for a reply: Null when the request fails, else the item
fetch_item(id) ==
    IF hn.status[id] = "failed" THEN Null
    ELSE Some([id |-> id, deleted |-> hn.status[id] = "deleted",
               dead |-> hn.status[id] = "dead", kids |-> Kids(id)])

\* a fetch that takes max_depth for the number of levels below the top one
RECURSIVE FetchOneDeeper(_, _, _)
FetchOneDeeper(comment_ids, current_depth, max_depth) ==
    IF comment_ids = <<>> \/ current_depth > max_depth + 1 THEN <<>>
    ELSE LET comment == fetch_item(Head(comment_ids))
             kept == /\ ~IsNull(comment)
                     /\ ~Val(comment).deleted /\ ~Val(comment).dead
             here == <<[id |-> Head(comment_ids), _depth |-> current_depth, kept |-> kept]>>
             below == IF kept /\ current_depth < max_depth + 1 /\ Val(comment).kids # <<>>
                      THEN FetchOneDeeper(Val(comment).kids, current_depth + 1, max_depth)
                      ELSE <<>>
         IN  here \o below \o FetchOneDeeper(Tail(comment_ids), current_depth, max_depth)

\* a fetch that drops the deleted replies and keeps the dead ones
RECURSIVE FetchKeepingDead(_, _, _)
FetchKeepingDead(comment_ids, current_depth, max_depth) ==
    IF comment_ids = <<>> \/ current_depth > max_depth THEN <<>>
    ELSE LET comment == fetch_item(Head(comment_ids))
             kept == ~IsNull(comment) /\ ~Val(comment).deleted
             here == <<[id |-> Head(comment_ids), _depth |-> current_depth, kept |-> kept]>>
             below == IF kept /\ current_depth < max_depth /\ Val(comment).kids # <<>>
                      THEN FetchKeepingDead(Val(comment).kids, current_depth + 1, max_depth)
                      ELSE <<>>
         IN  here \o below \o FetchKeepingDead(Tail(comment_ids), current_depth, max_depth)

\* a fetch that goes on to the replies of a reply it has dropped as deleted
\* or dead
RECURSIVE FetchBelowDropped(_, _, _)
FetchBelowDropped(comment_ids, current_depth, max_depth) ==
    IF comment_ids = <<>> \/ current_depth > max_depth THEN <<>>
    ELSE LET comment == fetch_item(Head(comment_ids))
             kept == /\ ~IsNull(comment)
                     /\ ~Val(comment).deleted /\ ~Val(comment).dead
             here == <<[id |-> Head(comment_ids), _depth |-> current_depth, kept |-> kept]>>
             below == IF ~IsNull(comment) /\ current_depth < max_depth
                         /\ Val(comment).kids # <<>>
                      THEN FetchBelowDropped(Val(comment).kids, current_depth + 1, max_depth)
                      ELSE <<>>
         IN  here \o below \o FetchBelowDropped(Tail(comment_ids), current_depth, max_depth)

\* a fetch that reads all the replies of a level before the replies below them
RECURSIVE FetchLevelFirst(_, _, _)
FetchLevelFirst(comment_ids, current_depth, max_depth) ==
    IF comment_ids = <<>> \/ current_depth > max_depth THEN <<>>
    ELSE LET comment == fetch_item(Head(comment_ids))
             kept == /\ ~IsNull(comment)
                     /\ ~Val(comment).deleted /\ ~Val(comment).dead
             here == <<[id |-> Head(comment_ids), _depth |-> current_depth, kept |-> kept]>>
             below == IF kept /\ current_depth < max_depth /\ Val(comment).kids # <<>>
                      THEN FetchLevelFirst(Val(comment).kids, current_depth + 1, max_depth)
                      ELSE <<>>
         IN  here \o FetchLevelFirst(Tail(comment_ids), current_depth, max_depth) \o below

\* fetch_comments_recursive, one entry per fetch_item it calls, in the order
\* of the calls: the reply asked for, the depth, and whether the reply was
\* appended to comments
RECURSIVE FetchTrace(_, _, _)
FetchTrace(comment_ids, current_depth, max_depth) ==
    IF comment_ids = <<>> \/ current_depth > max_depth THEN <<>>
    ELSE LET comment == fetch_item(Head(comment_ids))
             kept == /\ ~IsNull(comment)
                     /\ ~Val(comment).deleted /\ ~Val(comment).dead
             here == <<[id |-> Head(comment_ids), _depth |-> current_depth, kept |-> kept]>>
             below == IF kept /\ current_depth < max_depth /\ Val(comment).kids # <<>>
                      THEN FetchTrace(Val(comment).kids, current_depth + 1, max_depth)
                      ELSE <<>>
         IN  here \o below \o FetchTrace(Tail(comment_ids), current_depth, max_depth)

\* fetch_comments_recursive: the comments it returns
fetch_comments_recursive(comment_ids, current_depth, max_depth) ==
    LET kept == SelectSeq(FetchTrace(comment_ids, current_depth, max_depth),
                          LAMBDA e : e.kept)
    IN  [k \in 1..Len(kept) |-> [id |-> kept[k].id, _depth |-> kept[k]._depth]]

\* "  " * depth
RECURSIVE Indent(_)
Indent(depth) == IF depth = 0 THEN <<>> ELSE <<"  ">> \o Indent(depth - 1)

\* the three lines format_comments_as_text gives a comment; the body of
\* reply n reads n
CommentLines(comment) ==
    <<Indent(comment._depth) \o <<"[", "by", "]", " at ", "time", ":">>,
      Indent(comment._depth) \o <<ToString(comment.id)>>,
      <<>>>>

RECURSIVE AllCommentLines(_)
AllCommentLines(comments) ==
    IF comments = <<>> THEN <<>>
    ELSE CommentLines(Head(comments)) \o AllCommentLines(Tail(comments))

\* format_comments_as_text: "\n".join(lines)
format_comments_as_text(comments) ==
    IF comments = <<>> THEN <<>> ELSE Join(AllCommentLines(comments), <<"\n">>)

\* process_story, from story["kids"] on
FetchStory ==
    /\ f_pc = "idle"
    /\ f_trace' = FetchTrace(Kids(0), 0, hn.max_depth)
    /\ f_comments' = fetch_comments_recursive(Kids(0), 0, hn.max_depth)
    /\ f_dump' = format_comments_as_text(fetch_comments_recursive(Kids(0), 0, hn.max_depth))
    /\ f_pc' = "done"
    /\ UNCHANGED <<hn, links, contents>>

\* ---- ingest.main: the runs of the Source Fetcher, each with a connection of
\* its own
Fetchers == {1, 2}
Stories == 1..NumStories

\* the sources the runs read: one without replies, and one with two threads
\* in which the request for every third reply fails
IngestSources ==
    {QuietSource,
     [parent |-> [n \in Comments |-> IF n <= 2 THEN 0 ELSE n - 2],
      status |-> [n \in Comments |-> IF n % 3 = 0 THEN "failed" ELSE "live"],
      max_depth |-> MaxCommentDepth]}

\* what get_top_story_ids returns: nothing when the request fails, else the
\* source's list, in which an identifier may come twice
TopStoryLists == {<<>>, [k \in 1..NumStories |-> k] \o <<1>>}

\* what fetch_item meets for a story: the request fails, the item is of
\* another type, or it is a story
StoryOutcomes == {"failed", "not_story", "story"}

NoWrites == [links |-> <<>>, contents |-> <<>>]

\* the links table the run writes to: its schema puts no uniqueness
\* constraint on hn_id, so an INSERT of a stored hn_id adds a row
LinksHnIdUnique == FALSE

\* SELECT id FROM links WHERE hn_id = ?
story_exists(hn_id) == \E l \in 1..Len(links) : links[l].hn_id = hn_id

\* process_story
process_story(hn_id, outcome) ==
    IF outcome # "story" THEN Null
    ELSE Some([hn_id |-> hn_id,
               comments_text |->
                   format_comments_as_text(
                       fetch_comments_recursive(Kids(0), 0, hn.max_depth))])

CurrentId(p) == i_ids[p][i_k[p]]

\* main: on to the next identifier of story_ids
IngestAdvance(p) ==
    /\ i_story' = [i_story EXCEPT ![p] = Null]
    /\ IF i_k[p] = Len(i_ids[p])
       THEN i_pc' = [i_pc EXCEPT ![p] = "done"] /\ UNCHANGED i_k
       ELSE i_pc' = [i_pc EXCEPT ![p] = "check"] /\ i_k' = [i_k EXCEPT ![p] = @ + 1]

\* main: story_ids = await get_top_story_ids(client, TOP_STORIES_LIMIT)
IngestStart(p) ==
    /\ i_pc[p] = "idle"
    /\ \E ids \in TopStoryLists :
           /\ i_ids' = [i_ids EXCEPT ![p] = ids]
           /\ i_pc' = [i_pc EXCEPT ![p] = IF ids = <<>> THEN "done" ELSE "check"]
    /\ i_k' = [i_k EXCEPT ![p] = 1]
    /\ UNCHANGED <<i_story, i_tx, i_last, links, contents>>

\* a main that fetches every listed story without looking in links first
IngestFetchAll(p) ==
    /\ i_pc[p] = "check"
    /\ i_last' = [i_last EXCEPT ![p] =
                     Some([hn_id |-> CurrentId(p), present |-> story_exists(CurrentId(p)),
                           fetched |-> FALSE, outcome |-> "none", inserted |-> FALSE])]
    /\ i_pc' = [i_pc EXCEPT ![p] = "fetch"]
    /\ UNCHANGED <<i_ids, i_k, i_story, i_tx, links, contents>>

\* main: "Check if story already exists before fetching"
IngestCheck(p) ==
    /\ i_pc[p] = "check"
    /\ i_last' = [i_last EXCEPT ![p] =
                     Some([hn_id |-> CurrentId(p), present |-> story_exists(CurrentId(p)),
                           fetched |-> FALSE, outcome |-> "none", inserted |-> FALSE])]
    /\ IF story_exists(CurrentId(p))
       THEN IngestAdvance(p) /\ UNCHANGED i_ids
       ELSE i_pc' = [i_pc EXCEPT ![p] = "fetch"] /\ UNCHANGED <<i_ids, i_k, i_story>>
    /\ UNCHANGED <<i_tx, links, contents>>

\* a main in which a story that cannot be fetched ends the run
IngestFetchRaising(p) ==
    /\ i_pc[p] = "fetch"
    /\ \E outcome \in StoryOutcomes :
           LET story == process_story(CurrentId(p), outcome)
           IN  /\ i_last' = [i_last EXCEPT ![p] =
                                Some([Val(@) EXCEPT !.fetched = TRUE, !.outcome = outcome])]
               /\ IF IsNull(story)
                  THEN /\ i_pc' = [i_pc EXCEPT ![p] = "idle"]
                       /\ i_story' = [i_story EXCEPT ![p] = Null]
                       /\ i_k' = [i_k EXCEPT ![p] = 1]
                  ELSE /\ i_story' = [i_story EXCEPT ![p] = story]
                       /\ i_pc' = [i_pc EXCEPT ![p] = "insert"]
                       /\ UNCHANGED i_k
    /\ UNCHANGED <<i_ids, i_tx, links, contents>>

\* main: story = await process_story(client, hn_id, COMMENT_DEPTH)
IngestFetch(p) ==
    /\ i_pc[p] = "fetch"
    /\ \E outcome \in StoryOutcomes :
           LET story == process_story(CurrentId(p), outcome)
           IN  /\ i_last' = [i_last EXCEPT ![p] =
                                Some([Val(@) EXCEPT !.fetched = TRUE, !.outcome = outcome])]
               /\ IF IsNull(story)
                  THEN IngestAdvance(p)
                  ELSE /\ i_story' = [i_story EXCEPT ![p] = story]
                       /\ i_pc' = [i_pc EXCEPT ![p] = "insert"]
                       /\ UNCHANGED i_k
    /\ UNCHANGED <<i_ids, i_tx, links, contents>>

\* insert_story_with_content: "Check if story already exists"
IngestInsertCheck(p) ==
    /\ i_pc[p] = "insert"
    /\ IF story_exists(Val(i_story[p]).hn_id)
       THEN IngestAdvance(p)
       ELSE i_pc' = [i_pc EXCEPT ![p] = "insert_link"] /\ UNCHANGED <<i_k, i_story>>
    /\ UNCHANGED <<i_ids, i_tx, i_last, links, contents>>

\* an INSERT INTO links on a connection that commits each statement
IngestInsertLinkAutocommit(p) ==
    /\ i_pc[p] = "insert_link"
    /\ \A q \in Fetchers \ {p} : i_tx[q] = NoWrites
    /\ links' = Append(links, [hn_id |-> Val(i_story[p]).hn_id])
    /\ i_pc' = [i_pc EXCEPT ![p] = "insert_content"]
    /\ UNCHANGED <<i_ids, i_k, i_story, i_tx, i_last, contents>>

\* insert_story_with_content: INSERT INTO links; the statement opens the
\* run's write transaction, which waits for any other writer to commit
IngestInsertLink(p) ==
    /\ i_pc[p] = "insert_link"
    /\ \A q \in Fetchers \ {p} : i_tx[q] = NoWrites
    /\ IF LinksHnIdUnique /\ story_exists(Val(i_story[p]).hn_id)
       THEN \* the INSERT raises, and nothing in main catches it
            /\ i_pc' = [i_pc EXCEPT ![p] = "idle"]
            /\ i_ids' = [i_ids EXCEPT ![p] = <<>>]
            /\ i_k' = [i_k EXCEPT ![p] = 1]
            /\ i_story' = [i_story EXCEPT ![p] = Null]
            /\ UNCHANGED i_tx
       ELSE /\ i_tx' = [i_tx EXCEPT ![p].links =
                            Append(@, [hn_id |-> Val(i_story[p]).hn_id])]
            /\ i_pc' = [i_pc EXCEPT ![p] = "insert_content"]
            /\ UNCHANGED <<i_ids, i_k, i_story>>
    /\ UNCHANGED <<i_last, links, contents>>

\* insert_story_with_content: link_id = last_insert_rowid(); INSERT INTO contents
IngestInsertContent(p) ==
    /\ i_pc[p] = "insert_content"
    /\ LET link_id == Len(links) + Len(i_tx[p].links)
       IN  i_tx' = [i_tx EXCEPT ![p].contents =
                       Append(@, [link_id |-> link_id, article |-> Null,
                                  comments |-> Some(Val(i_story[p]).comments_text)])]
    /\ i_pc' = [i_pc EXCEPT ![p] = "commit"]
    /\ UNCHANGED <<i_ids, i_k, i_story, i_last, links, contents>>

\* insert_story_with_content: await db.commit()
IngestCommit(p) ==
    /\ i_pc[p] = "commit"
    /\ links' = links \o i_tx[p].links
    /\ contents' = contents \o i_tx[p].contents
    /\ i_tx' = [i_tx EXCEPT ![p] = NoWrites]
    /\ i_last' = [i_last EXCEPT ![p] = Some([Val(@) EXCEPT !.inserted = TRUE])]
    /\ IngestAdvance(p)
    /\ UNCHANGED i_ids

\* the run is stopped between its first INSERT and its commit: the open
\* transaction is rolled back
IngestInterrupt(p) ==
    /\ i_pc[p] \in {"insert_content", "commit"}
    /\ i_tx' = [i_tx EXCEPT ![p] = NoWrites]
    /\ i_pc' = [i_pc EXCEPT ![p] = "idle"]
    /\ i_ids' = [i_ids EXCEPT ![p] = <<>>]
    /\ i_k' = [i_k EXCEPT ![p] = 1]
    /\ i_story' = [i_story EXCEPT ![p] = Null]
    /\ UNCHANGED <<i_last, links, contents>>

\* main returns
IngestExit(p) ==
    /\ i_pc[p] = "done"
    /\ i_pc' = [i_pc EXCEPT ![p] = "idle"]
    /\ i_ids' = [i_ids EXCEPT ![p] = <<>>]
    /\ i_k' = [i_k EXCEPT ![p] = 1]
    /\ UNCHANGED <<i_story, i_tx, i_last, links, contents>>

\* ============================================================ specifications
NewUser == [categories |-> EmptyText, custom_description |-> EmptyText, is_active |-> TRUE]

\* user 1 follows "a" and user 2 follows "b,c", both with a description; a
\* third user follows "a" and has given no description
InitialUser(u) ==
    CASE u % 3 = 1 -> [NewUser EXCEPT !.categories = Join(<<CatA>>, <<",">>),
                                      !.custom_description = <<"d">>]
      [] u % 3 = 2 -> [NewUser EXCEPT !.categories = Join(<<CatB, CatC>>, <<",">>),
                                      !.custom_description = <<"d">>]
      [] OTHER -> [NewUser EXCEPT !.categories = Join(<<CatA>>, <<",">>)]

NoOutcome == [invoked |-> FALSE, outcome |-> Null]
NoHist ==
    [prev_table |-> Null,
     prev_out |-> [p \in Pairs |-> NoOutcome], cur_out |-> [p \in Pairs |-> NoOutcome]]

InitLocals ==
    /\ m_pc = "idle" /\ m_users = <<>> /\ m_articles = <<>> /\ m_ui = 1 /\ m_ai = 1
    /\ m_last = NoStep /\ m_tx = Null /\ m_hist = NoHist
    /\ d_pc = "idle" /\ d_users = <<>> /\ d_i = 1 /\ d_articles = <<>>
    /\ d_mail = "none" /\ d_pre = NoTable /\ d_tx = Null
    /\ d_log = [p \in Pairs |-> [delivered |-> 0, marked_empty |-> FALSE]]
    /\ runs = [matcher |-> 0, digest |-> 0, profile |-> 0, read |-> 0,
               score |-> 0, analyze |-> 0, scrape |-> 0, ingest |-> 0]
    /\ s_pc = "idle" /\ s_contents = <<>> /\ s_i = 1 /\ s_last = NoStep
    /\ a_pc = "idle" /\ a_contents = <<>> /\ a_i = 1 /\ a_last = Null
    /\ c_pc = [p \in Crawlers |-> "idle"] /\ c_links = [p \in Crawlers |-> <<>>]
    /\ c_i = [p \in Crawlers |-> 1] /\ c_results = [p \in Crawlers |-> <<>>]
    /\ c_tasks = [p \in Crawlers |-> <<>>] /\ c_tx = [p \in Crawlers |-> Null]
    /\ c_outcomes = [p \in Crawlers |-> <<>>] /\ c_pre = [p \in Crawlers |-> <<>>]
    /\ f_pc = "idle" /\ f_trace = <<>> /\ f_comments = <<>> /\ f_dump = <<>>
    /\ i_pc = [p \in Fetchers |-> "idle"] /\ i_ids = [p \in Fetchers |-> <<>>]
    /\ i_k = [p \in Fetchers |-> 1] /\ i_story = [p \in Fetchers |-> Null]
    /\ i_tx = [p \in Fetchers |-> NoWrites] /\ i_last = [p \in Fetchers |-> NoStep]

\* the users have registered and chosen topics, the enrichment stages have
\* left the analysis rows, and nothing is matched yet
\* every content has been scraped; a third content came back empty
InitialContent(c) ==
    IF c % 3 = 0 THEN [link_id |-> c, article |-> Some(EmptyText), comments |-> Null]
    ELSE [link_id |-> c, article |-> Some(<<"x">>), comments |-> Some(<<"k">>)]

\* the link the Source Fetcher stored for content c
InitialLink(l) == [hn_id |-> 100 + l]

Init ==
    /\ users = [u \in Users |-> InitialUser(u)]
    /\ contents = [c \in Articles |-> InitialContent(c)]
    /\ links = [l \in Articles |-> InitialLink(l)]
    /\ hn = QuietSource
    /\ analysis = [c \in Articles |-> InitialAnalysis(c)]
    /\ user_articles = NoTable
    /\ InitLocals

\* no batch stage is running
Quiet == m_pc = "idle" /\ d_pc = "idle"

\* a run or call of one kind starts, within the bound on how many do
Count(kind, max) ==
    /\ runs[kind] < max
    /\ runs' = [runs EXCEPT ![kind] = @ + 1]

\* Matcher and Digest Dispatcher run one after another, as the pipeline
\* schedules them, and the feed is read between runs
Next ==
    \/ Quiet /\ MatcherStart /\ Count("matcher", MaxMatcherRuns) /\ UNCHANGED m_hist /\ UNCHANGED stageVars
    \/ MatcherAsk /\ UNCHANGED <<runs, m_hist>> /\ UNCHANGED stageVars
    \/ MatcherPair /\ UNCHANGED <<runs, m_hist>> /\ UNCHANGED stageVars
    \/ MatcherCommit /\ UNCHANGED <<runs, m_hist>> /\ UNCHANGED stageVars
    \/ MatcherExit /\ UNCHANGED <<runs, m_hist>> /\ UNCHANGED stageVars
    \/ Quiet /\ DigestStart /\ Count("digest", MaxDigestRuns) /\ UNCHANGED m_hist /\ UNCHANGED stageVars
    \/ DigestRead /\ UNCHANGED <<runs, m_hist>> /\ UNCHANGED stageVars
    \/ DigestSend /\ UNCHANGED <<runs, m_hist>> /\ UNCHANGED stageVars
    \/ DigestMark /\ UNCHANGED <<runs, m_hist>> /\ UNCHANGED stageVars
    \/ DigestMarkCommit /\ UNCHANGED <<runs, m_hist>> /\ UNCHANGED stageVars
    \/ DigestMarkEmpty /\ UNCHANGED <<runs, m_hist>> /\ UNCHANGED stageVars
    \/ DigestMarkEmptyCommit /\ UNCHANGED <<runs, m_hist>> /\ UNCHANGED stageVars
    \/ DigestNext /\ UNCHANGED <<runs, m_hist>> /\ UNCHANGED stageVars
    \/ DigestExit /\ UNCHANGED <<runs, m_hist>> /\ UNCHANGED stageVars
    \/ Quiet /\ GetArticle /\ Count("read", MaxReads) /\ UNCHANGED m_hist /\ UNCHANGED stageVars

Spec == Init /\ [][Next]_vars

\* ---- the same, with the first subscriber changing their profile between the
\* runs, and a second subscriber whose topic no article has
FeedInit ==
    /\ users = [u \in Users |->
                    IF u = 2 THEN [InitialUser(u) EXCEPT !.categories = Join(<<CatZ>>, <<",">>)]
                    ELSE InitialUser(u)]
    /\ contents = [c \in Articles |-> InitialContent(c)]
    /\ links = [l \in Articles |-> InitialLink(l)]
    /\ hn = QuietSource
    /\ analysis = [c \in Articles |-> InitialAnalysis(c)]
    /\ user_articles = NoTable
    /\ InitLocals

FeedNext ==
    \/ Quiet /\ MatcherStart /\ Count("matcher", MaxMatcherRuns) /\ UNCHANGED m_hist /\ UNCHANGED stageVars
    \/ MatcherAsk /\ UNCHANGED <<runs, m_hist>> /\ UNCHANGED stageVars
    \/ MatcherPair /\ UNCHANGED <<runs, m_hist>> /\ UNCHANGED stageVars
    \/ MatcherCommit /\ UNCHANGED <<runs, m_hist>> /\ UNCHANGED stageVars
    \/ MatcherExit /\ UNCHANGED <<runs, m_hist>> /\ UNCHANGED stageVars
    \/ Quiet /\ DigestStart /\ Count("digest", MaxDigestRuns) /\ UNCHANGED m_hist /\ UNCHANGED stageVars
    \/ DigestRead /\ UNCHANGED <<runs, m_hist>> /\ UNCHANGED stageVars
    \/ DigestSend /\ UNCHANGED <<runs, m_hist>> /\ UNCHANGED stageVars
    \/ DigestMark /\ UNCHANGED <<runs, m_hist>> /\ UNCHANGED stageVars
    \/ DigestMarkCommit /\ UNCHANGED <<runs, m_hist>> /\ UNCHANGED stageVars
    \/ DigestMarkEmpty /\ UNCHANGED <<runs, m_hist>> /\ UNCHANGED stageVars
    \/ DigestMarkEmptyCommit /\ UNCHANGED <<runs, m_hist>> /\ UNCHANGED stageVars
    \/ DigestNext /\ UNCHANGED <<runs, m_hist>> /\ UNCHANGED stageVars
    \/ DigestExit /\ UNCHANGED <<runs, m_hist>> /\ UNCHANGED stageVars
    \/ Quiet /\ GetArticle /\ Count("read", MaxReads) /\ UNCHANGED m_hist /\ UNCHANGED stageVars
    \/ Quiet /\ UpdateProfileOf(1) /\ Count("profile", MaxProfileUpdates) /\ UNCHANGED m_hist /\ UNCHANGED stageVars

FeedSpec == FeedInit /\ [][FeedNext]_vars

\* ---- Matcher runs with profile changes between them.  m_hist keeps what the
\* previous run left and what each derivation call yielded, for as long as the
\* inputs stay as that run saw them
MatcherCommitH ==
    /\ MatcherCommit
    /\ LET l == Val(m_last')
       IN  m_hist' = [m_hist EXCEPT !.cur_out[<<l.user, l.article>>] =
                                        [invoked |-> l.invoked, outcome |-> l.outcome]]

MatcherExitH ==
    /\ MatcherExit
    /\ m_hist' = [prev_table |-> Some(user_articles),
                  prev_out |-> m_hist.cur_out, cur_out |-> [p \in Pairs |-> NoOutcome]]

UpdateProfileH ==
    /\ UpdateProfile
    /\ m_hist' = NoHist

MatcherNext ==
    \/ Quiet /\ MatcherStart /\ Count("matcher", MaxMatcherRuns) /\ UNCHANGED m_hist /\ UNCHANGED stageVars
    \/ MatcherAsk /\ UNCHANGED <<runs, m_hist>> /\ UNCHANGED stageVars
    \/ MatcherPair /\ UNCHANGED <<runs, m_hist>> /\ UNCHANGED stageVars
    \/ MatcherCommitH /\ UNCHANGED runs /\ UNCHANGED stageVars
    \/ MatcherExitH /\ UNCHANGED runs /\ UNCHANGED stageVars
    \/ Quiet /\ UpdateProfileH /\ Count("profile", MaxProfileUpdates) /\ UNCHANGED stageVars

MatcherSpec == Init /\ [][MatcherNext]_vars

\* ---- the two enrichment stages, each a process of its own over the same
\* store: their runs overlap, one content at a time
ScoreInit ==
    /\ users = [u \in Users |-> InitialUser(u)]
    /\ contents = [c \in Articles |-> InitialContent(c)]
    /\ links = [l \in Articles |-> InitialLink(l)]
    /\ hn = QuietSource
    /\ analysis = [c \in Articles |-> <<>>]
    /\ user_articles = NoTable
    /\ InitLocals

ScoreFrame == UNCHANGED <<tableVars, matcherVars, digestVars, m_hist, sourceVars>>

ScoreNext ==
    \/ ScoreStart /\ Count("score", MaxScoreRuns) /\ ScoreFrame
    \/ ScoreContent /\ UNCHANGED runs /\ ScoreFrame
    \/ ScoreExit /\ UNCHANGED runs /\ ScoreFrame
    \/ AnalyzeStart /\ Count("analyze", MaxAnalyzeRuns) /\ ScoreFrame
    \/ AnalyzeContent /\ UNCHANGED runs /\ ScoreFrame
    \/ AnalyzeExit /\ UNCHANGED runs /\ ScoreFrame

ScoreSpec == ScoreInit /\ [][ScoreNext]_vars

\* ---- the Content Extractor, run after run, over links whose pages have not
\* been fetched yet
ScrapeInit ==
    /\ users = [u \in Users |-> InitialUser(u)]
    /\ links = [l \in 1..NumLinks |-> InitialLink(l)]
    /\ hn = QuietSource
    /\ contents = [c \in 1..NumLinks |->
                      [link_id |-> c, article |-> Null, comments |-> Some(<<"k">>)]]
    /\ analysis = [c \in Articles |-> <<>>]
    /\ user_articles = NoTable
    /\ InitLocals

ScrapeFrame ==
    UNCHANGED <<tableVars, analysis, matcherVars, digestVars, m_hist, scoreVars, analyzeVars,
                fetchVars, ingestVars>>

ScrapeRun(p) ==
    \/ ScrapeStart(p) /\ Count("scrape", MaxScrapeRuns) /\ ScrapeFrame
    \/ ScrapeLaunch(p) /\ UNCHANGED runs /\ ScrapeFrame
    \/ ScrapeFinish(p) /\ UNCHANGED runs /\ ScrapeFrame
    \/ ScrapeGather(p) /\ UNCHANGED runs /\ ScrapeFrame
    \/ ScrapeUpdate(p) /\ UNCHANGED runs /\ ScrapeFrame
    \/ ScrapeCommit(p) /\ UNCHANGED runs /\ ScrapeFrame
    \/ ScrapeExit(p) /\ UNCHANGED runs /\ ScrapeFrame

ScrapeNext == ScrapeRun(1)

ScrapeSpec == ScrapeInit /\ [][ScrapeNext]_vars

\* ---- the Content Extractor and the two enrichment stages over the same
\* contents: the page of the first content's link has not been fetched yet,
\* and it comes back empty when it does
PipelineInit ==
    /\ users = [u \in Users |-> InitialUser(u)]
    /\ links = [l \in 1..NumLinks |-> InitialLink(l)]
    /\ hn = QuietSource
    /\ contents = [c \in Articles |->
                      [link_id |-> c + 2,
                       article |-> IF c = 1 THEN Null ELSE Some(<<"x">>),
                       comments |-> Some(<<"k">>)]]
    /\ analysis = [c \in Articles |-> <<>>]
    /\ user_articles = NoTable
    /\ InitLocals

\* the runs of the Content Extractor alternate with those of the enrichment
\* stages
NotEnriching == s_pc = "idle" /\ a_pc = "idle"
NotCrawling == c_pc[1] = "idle"

PipelineNext ==
    \/ NotEnriching /\ ScrapeStart(1) /\ Count("scrape", MaxScrapeRuns) /\ ScrapeFrame
    \/ NotEnriching /\ ScrapeLaunch(1) /\ UNCHANGED runs /\ ScrapeFrame
    \/ NotEnriching /\ ScrapeFinish(1) /\ UNCHANGED runs /\ ScrapeFrame
    \/ NotEnriching /\ ScrapeGather(1) /\ UNCHANGED runs /\ ScrapeFrame
    \/ NotEnriching /\ ScrapeUpdate(1) /\ UNCHANGED runs /\ ScrapeFrame
    \/ NotEnriching /\ ScrapeCommit(1) /\ UNCHANGED runs /\ ScrapeFrame
    \/ NotEnriching /\ ScrapeExit(1) /\ UNCHANGED runs /\ ScrapeFrame
    \/ NotCrawling /\ ScoreStart /\ Count("score", MaxScoreRuns) /\ ScoreFrame
    \/ NotCrawling /\ ScoreContent /\ UNCHANGED runs /\ ScoreFrame
    \/ NotCrawling /\ ScoreExit /\ UNCHANGED runs /\ ScoreFrame
    \/ NotCrawling /\ AnalyzeStart /\ Count("analyze", MaxAnalyzeRuns) /\ ScoreFrame
    \/ NotCrawling /\ AnalyzeContent /\ UNCHANGED runs /\ ScoreFrame
    \/ NotCrawling /\ AnalyzeExit /\ UNCHANGED runs /\ ScoreFrame

PipelineSpec == PipelineInit /\ [][PipelineNext]_vars

\* ---- two runs of the Content Extractor at the same time, over a store in
\* which all but the first NumUncrawled pages are there already
ScrapeRaceInit ==
    /\ users = [u \in Users |-> InitialUser(u)]
    /\ links = [l \in 1..NumLinks |-> InitialLink(l)]
    /\ hn = QuietSource
    /\ contents = [c \in 1..NumLinks |->
                      [link_id |-> c,
                       article |-> IF c <= NumUncrawled THEN Null ELSE Some(PageText(c)),
                       comments |-> Some(<<"k">>)]]
    /\ analysis = [c \in Articles |-> <<>>]
    /\ user_articles = NoTable
    /\ InitLocals

ScrapeRaceNext == \E p \in Crawlers : ScrapeRun(p)

ScrapeRaceSpec == ScrapeRaceInit /\ [][ScrapeRaceNext]_vars

\* ---- the Source Fetcher reads the replies of one story, for every reply
\* tree, every state of each reply and every depth asked
FetchInit ==
    /\ users = [u \in Users |-> InitialUser(u)]
    /\ links = <<>> /\ contents = <<>>
    /\ analysis = [c \in Articles |-> <<>>]
    /\ user_articles = NoTable
    /\ InitLocals
    /\ hn \in Sources

FetchNext ==
    FetchStory /\ UNCHANGED <<runs, tableVars, analysis, matcherVars, digestVars, m_hist,
                              scoreVars, analyzeVars, scrapeVars, ingestVars>>

FetchSpec == FetchInit /\ [][FetchNext]_vars

\* ---- the Source Fetcher against an empty store: one run after another, and
\* two runs at once
IngestInit ==
    /\ users = [u \in Users |-> InitialUser(u)]
    /\ links = <<>> /\ contents = <<>>
    /\ hn \in IngestSources
    /\ analysis = [c \in Articles |-> <<>>]
    /\ user_articles = NoTable
    /\ InitLocals

IngestFrame ==
    UNCHANGED <<tableVars, analysis, matcherVars, digestVars, m_hist, scoreVars, analyzeVars,
                scrapeVars, fetchVars>>

IngestRun(p) ==
    \/ IngestStart(p) /\ Count("ingest", MaxIngestRuns) /\ IngestFrame
    \/ IngestCheck(p) /\ UNCHANGED runs /\ IngestFrame
    \/ IngestFetch(p) /\ UNCHANGED runs /\ IngestFrame
    \/ IngestInsertCheck(p) /\ UNCHANGED runs /\ IngestFrame
    \/ IngestInsertLink(p) /\ UNCHANGED runs /\ IngestFrame
    \/ IngestInsertContent(p) /\ UNCHANGED runs /\ IngestFrame
    \/ IngestCommit(p) /\ UNCHANGED runs /\ IngestFrame
    \/ IngestInterrupt(p) /\ UNCHANGED runs /\ IngestFrame
    \/ IngestExit(p) /\ UNCHANGED runs /\ IngestFrame

IngestNext == IngestRun(1)

IngestSpec == IngestInit /\ [][IngestNext]_vars

IngestRaceNext == \E p \in Fetchers : IngestRun(p)

IngestRaceSpec == IngestInit /\ [][IngestRaceNext]_vars

\* ==================================================================== claims
\* the match set of an association: the slugs its matched_categories holds
MatchSet(row) ==
    IF IsNull(row.matched_categories) THEN {}
    ELSE Range(JsonLoads(Val(row.matched_categories)))

\* the category set of a subscriber and of an item
UserCats(u) == Range(ParseCategories(users[u].categories))
ArticleCats(a) ==
    UNION {Range(ParseCategories(Val(r.categories))) :
              r \in {x \in Range(analysis[a]) : ~IsNull(x.categories)}}
ArticleSummary(a) ==
    IF analysis[a] = <<>> \/ IsNull(analysis[a][1].article_summary) THEN EmptyText
    ELSE Val(analysis[a][1].article_summary)

\* the subscriber the Dispatcher is handling and that subscriber's rows as
\* the Dispatcher read them
DigestUser == d_users[d_i]
UnsentBefore(u) == {id \in IdsOf(d_pre) : id[1] = u /\ ~RowOf(d_pre, id).is_sent}

\* C1: when the mail delegate fails to deliver a subscriber's digest, every
\* association of that subscriber that was unsent before the dispatch is
\* still unsent after it.
C1_FailedDeliveryChangesNothing ==
    (d_pc = "next" /\ d_mail \in {"ses_error", "config_error"}) =>
        \A id \in UnsentBefore(DigestUser) : ~Row(id).is_sent

\* C2: after a successful dispatch for a subscriber the payload held exactly
\* the subscriber's unsent associations with a non-empty match set; those and
\* the subscriber's unsent associations with an empty or null match set are
\* now sent; no association of another subscriber changed.
C2_SuccessfulDispatch ==
    (d_pc = "next" /\ d_mail = "delivered") =>
        /\ Range(d_articles) =
               {id \in UnsentBefore(DigestUser) : MatchSet(RowOf(d_pre, id)) # {}}
        /\ \A id \in UnsentBefore(DigestUser) : Row(id).is_sent
        /\ \A id \in IdsOf(d_pre) :
               RowOf(d_pre, id).is_sent => Row(id) = RowOf(d_pre, id)
        /\ \A id \in IdsOf(d_pre) :
               Row(id) = [RowOf(d_pre, id) EXCEPT !.is_sent = Row(id).is_sent]
        /\ \A id \in IdsOf(d_pre) : id[1] # DigestUser => Row(id) = RowOf(d_pre, id)
        /\ AllRowIds = IdsOf(d_pre)

\* C2 witness: a delivered digest for a subscriber who had an unsent
\* association with an empty match set, while another subscriber has rows.
C2_Witness ==
    /\ d_pc = "next" /\ d_mail = "delivered"
    /\ d_articles # <<>>
    /\ \E id \in UnsentBefore(DigestUser) : MatchSet(RowOf(d_pre, id)) = {}
    /\ \E id \in IdsOf(d_pre) : id[1] # DigestUser /\ ~Row(id).is_sent

\* C3: for a subscriber and an item with disjoint category sets the Matcher
\* stores one association with an empty match set and a null relevance
\* score, and no payload of the Dispatcher holds an association whose match
\* set is empty.
C3_EmptyMatchSuppressed ==
    /\ \A l \in m_last :
           UserCats(l.user) \cap ArticleCats(l.article) = {} =>
               /\ Len(user_articles[<<l.user, l.article>>]) = 1
               /\ user_articles[<<l.user, l.article>>][1].matched_categories = Some(EmptyJson)
               /\ MatchSet(user_articles[<<l.user, l.article>>][1]) = {}
               /\ IsNull(user_articles[<<l.user, l.article>>][1].relevance_score)
    /\ \A id \in Range(d_articles) : MatchSet(Row(id)) # {}

\* C3 witness: a payload is about to be sent to a subscriber who has an unsent
\* association with an empty match set.
C3_Witness ==
    /\ d_pc = "send"
    /\ \E id \in AllRowIds :
           /\ id[1] = DigestUser /\ ~Row(id).is_sent
           /\ MatchSet(Row(id)) = {} /\ IsNull(Row(id).relevance_score)
           /\ UserCats(id[1]) \cap ArticleCats(id[2]) = {}

\* C4: is_sent never goes from true back to false, and goes from false to
\* true only for an association included in a delivered digest or cleared as
\* an empty-match association.
C4_SentTransitions ==
    [][\A id \in AllRowIds :
          /\ Row(id).is_sent =>
                 id \in IdsOf(user_articles') /\ RowOf(user_articles', id).is_sent
          /\ (~Row(id).is_sent /\ id \in IdsOf(user_articles')
                 /\ RowOf(user_articles', id).is_sent) =>
                 \/ d_mail = "delivered" /\ id \in Range(d_articles)
                 \/ MatchSet(Row(id)) = {}]_vars

\* the Matcher has finished a run that followed another run over the same
\* users and analyses
SecondRunDone == m_pc = "done" /\ ~IsNull(m_hist.prev_table)
PrevTable == Val(m_hist.prev_table)

\* C5: a second Matcher run over unchanged inputs leaves the association
\* table identical to what the first run left.
C5_SecondRunIdentical == SecondRunDone => user_articles = PrevTable

\* C5 as amended: the second run adds no row and leaves every row's match set
\* as it was; a row's relevance score is as it was whenever the relevance
\* derivation for the pair was called, and answered, the same in both runs.
C5_SecondRunSameRows ==
    SecondRunDone =>
        \A p \in Pairs :
            /\ Len(user_articles[p]) = Len(PrevTable[p])
            /\ \A k \in 1..Len(user_articles[p]) :
                   /\ MatchSet(user_articles[p][k]) = MatchSet(PrevTable[p][k])
                   /\ IsNull(user_articles[p][k].matched_categories)
                          = IsNull(PrevTable[p][k].matched_categories)
                   /\ user_articles[p][k].is_sent = PrevTable[p][k].is_sent
                   /\ user_articles[p][k].is_read = PrevTable[p][k].is_read
                   /\ m_hist.cur_out[p] = m_hist.prev_out[p] =>
                          user_articles[p][k] .relevance_score
                              = PrevTable[p][k].relevance_score

\* C5 witness: a second run has ended in which a derivation answered as in the
\* first run and the pair holds a score.
C5_Witness ==
    /\ SecondRunDone
    /\ \E p \in Pairs :
           /\ m_hist.cur_out[p].invoked
           /\ m_hist.cur_out[p] = m_hist.prev_out[p]
           /\ user_articles[p] # <<>>
           /\ ~IsNull(user_articles[p][1].relevance_score)

\* C6: after a complete Matcher run, also one that follows a profile change,
\* every pair of a subscriber and an item whose category sets are non-empty
\* has exactly one association, and its match set is the intersection of the
\* two category sets.
C6_MatchSetIsIntersection ==
    m_pc = "done" =>
        \A u \in Users, a \in Articles :
            (UserCats(u) # {} /\ ArticleCats(a) # {}) =>
                /\ Len(user_articles[<<u, a>>]) = 1
                /\ ~IsNull(user_articles[<<u, a>>][1].matched_categories)
                /\ MatchSet(user_articles[<<u, a>>][1]) = UserCats(u) \cap ArticleCats(a)

\* C6 witness: a second run has ended that followed a profile change made
\* after the first run, and a pair's match set has two slugs.
C6_Witness ==
    /\ m_pc = "done"
    /\ runs.matcher = 2 /\ runs.profile = 1 /\ IsNull(m_hist.prev_table)
    /\ \E p \in Pairs : user_articles[p] # <<>> /\ MatchSet(user_articles[p][1]) = {CatB, CatC}
    /\ \E p \in Pairs : user_articles[p] # <<>> /\ MatchSet(user_articles[p][1]) = {}

\* C7: a relevance score is non-null only on an association with a non-empty
\* match set whose subscriber had a description and whose item had a summary
\* when the Matcher wrote it; in every other case the derivation is not
\* called and the score written is null.
C7_ScoreOnlyWithDescriptionAndSummary ==
    /\ \A id \in AllRowIds : ~IsNull(Row(id).relevance_score) => MatchSet(Row(id)) # {}
    /\ \A l \in m_last :
           LET row == user_articles[<<l.user, l.article>>][1]
               eligible == /\ UserCats(l.user) \cap ArticleCats(l.article) # {}
                           /\ users[l.user].custom_description # EmptyText
                           /\ ArticleSummary(l.article) # EmptyText
           IN  /\ ~IsNull(row.relevance_score) => eligible
               /\ l.invoked <=> eligible
               /\ ~l.invoked => IsNull(row.relevance_score)

\* C7 witness: the Matcher has just handled a pair with a non-empty match set
\* whose item has no summary, without calling the derivation.
C7_Witness ==
    \E l \in m_last :
        /\ ~l.invoked
        /\ l.matched # <<>>
        /\ users[l.user].custom_description # EmptyText
        /\ ArticleSummary(l.article) = EmptyText

\* C8: every relevance score persisted is null or within 0..5; an output
\* above 5 is stored as 5.0 and an output below 0 as 0.0.
C8_RelevanceClamped ==
    /\ \A id \in AllRowIds :
           \A v \in Row(id).relevance_score : 0 <= v /\ v <= 50
    /\ \A l \in m_last :
           \A v \in l.outcome :
               LET stored == user_articles[<<l.user, l.article>>][1].relevance_score
               IN  /\ v > 50 => stored = Some(50)
                   /\ v < 0 => stored = Some(0)
                   /\ (0 <= v /\ v <= 50) => stored = Some(v)

\* C8 witness: an output of 6.7 has just been stored as 5.0, and an
\* association written earlier holds 0.0.
C8_Witness ==
    /\ \E l \in m_last :
           /\ l.outcome = Some(67)
           /\ user_articles[<<l.user, l.article>>][1].relevance_score = Some(50)
    /\ \E id \in AllRowIds : Row(id).relevance_score = Some(0)

\* the keys and the numbers of a persisted scores value
ScoreKeysOf(json) == {json[i][1] : i \in 1..Len(json)}
ScoreValuesOf(json) == {json[i][2] : i \in 1..Len(json)}
ScoredRows(c) == {r \in Range(analysis[c]) : ~IsNull(r.scores)}

\* C9: every controversy, trust, sentiment and confidence value the scoring
\* stage persists lies within 0..5.
C9_ScoresClamped ==
    \A c \in Articles : \A r \in ScoredRows(c) :
        \A v \in ScoreValuesOf(Val(r.scores)) : 0 <= v /\ v <= 50

\* C10: for a content whose summary was not committed when the scoring stage
\* selected it, the confidence derivation is not called and the scores
\* persisted for it hold no confidence key.
C10_NoSummaryNoConfidence ==
    \A l \in s_last :
        IsNull(l.article_summary) =>
            /\ ~l.confidence_invoked
            /\ IsNull(l.confidence)
            /\ ~IsNull(l.scores) =>
                   /\ ScoredRows(l.id) # {}
                   /\ \A r \in ScoredRows(l.id) :
                          "confidence" \notin ScoreKeysOf(Val(r.scores))

\* C10 witness: the scoring stage has persisted scores for a content it
\* selected before the summary was there, and the summary has been committed
\* since.
C10_Witness ==
    \E l \in s_last :
        /\ IsNull(l.article_summary)
        /\ ~IsNull(l.scores)
        /\ \E r \in Range(analysis[l.id]) :
               ~IsNull(r.article_summary) /\ ~IsNull(r.scores)
        /\ \E c \in Articles : \E r \in ScoredRows(c) :
               "confidence" \in ScoreKeysOf(Val(r.scores))

\* the links whose content has no body, and the links of the batch last stored
NullBodyLinks == {contents[i].link_id : i \in {j \in 1..Len(contents) : IsNull(contents[j].article)}}
JustSelected == (c_pc[1] = "crawl" /\ c_i[1] = 1) \/ (c_pc[1] = "done" /\ c_links[1] = <<>>)
BatchStored == c_pre[1] # <<>>
BatchLinks == {c_outcomes[1][k].link_id : k \in 1..Len(c_outcomes[1])}

\* C11: a Content Extractor invocation, also one that follows a run in which
\* some crawls succeeded and some failed, selects exactly the contents whose
\* body is still null and none of those whose body was filled.
C11_SelectsStillNull ==
    JustSelected =>
        /\ Range(c_links[1]) = NullBodyLinks
        /\ Cardinality(Range(c_links[1])) = Len(c_links[1])
        /\ \A i \in 1..Len(contents) :
               ~IsNull(contents[i].article) => contents[i].link_id \notin Range(c_links[1])

\* C11 witness: a second invocation has just selected its links, after a run
\* that filled some bodies (one of them with the empty string) and left others
\* null.
C11_Witness ==
    /\ c_pc[1] = "crawl" /\ c_i[1] = 1 /\ runs.scrape = 2
    /\ \E i, j, k \in 1..Len(contents) :
           /\ IsNull(contents[i].article)
           /\ contents[j].article = Some(PageText(contents[j].link_id))
           /\ PageText(contents[j].link_id) # EmptyText
           /\ contents[k].article = Some(EmptyText)

\* C12: in a batch, a crawl that raised or returned nothing leaves its item's
\* body null and every non-null result of the same batch, and of the batches
\* after it, is written; nothing but non-null results is written.
C12_BatchFailureIsolated ==
    BatchStored =>
        /\ \A k \in 1..Len(c_outcomes[1]) : \A i \in 1..Len(contents) :
               contents[i].link_id = c_outcomes[1][k].link_id =>
                   IF c_outcomes[1][k].raised \/ IsNull(c_outcomes[1][k].value)
                   THEN contents[i] = c_pre[1][i] /\ IsNull(contents[i].article)
                   ELSE contents[i] = [c_pre[1][i] EXCEPT !.article = c_outcomes[1][k].value]
        /\ \A i \in 1..Len(contents) :
               contents[i].link_id \notin BatchLinks => contents[i] = c_pre[1][i]
        /\ \A i \in 1..Len(contents) :
               contents[i] # c_pre[1][i] => ~IsNull(contents[i].article)
        /\ Len(contents) = Len(c_pre[1])

\* C12 witness: the second batch of a run has been stored with a body written,
\* after a first batch in which a crawl raised, one returned nothing, and a
\* later one of the same batch had its result written.
C12_Witness ==
    /\ BatchStored /\ c_i[1] > 2 * BATCH_SIZE /\ runs.scrape = 1
    /\ \E k \in 1..Len(c_outcomes[1]) : \E i \in 1..Len(contents) :
           /\ contents[i].link_id = c_outcomes[1][k].link_id
           /\ ~c_outcomes[1][k].raised
           /\ ~IsNull(contents[i].article)
    /\ \E i, j \in 1..BATCH_SIZE :
           i < j /\ IsNull(contents[i].article) /\ ~IsNull(contents[j].article)

\* how deep a reply lies in the tree: 0 for an answer to the story
RECURSIVE TrueDepth(_)
TrueDepth(n) == IF hn.parent[n] = 0 THEN 0 ELSE 1 + TrueDepth(hn.parent[n])

WithinDepth == {n \in Comments : TrueDepth(n) <= hn.max_depth}
FetchedIds == {f_trace[k].id : k \in 1..Len(f_trace)}
CommentIds == {f_comments[k].id : k \in 1..Len(f_comments)}
DumpedIds == {n \in Comments : ToString(n) \in Range(f_dump)}
AllLive == \A n \in Comments : hn.status[n] = "live"

\* C13: with maximum depth D and every reply live and fetchable, exactly the
\* replies at depths 0..D are fetched and recorded, each with its true depth,
\* and no deeper reply is fetched or appears in comment_dump.
C13_DepthBound ==
    (f_pc = "done" /\ AllLive) =>
        /\ FetchedIds = WithinDepth
        /\ Len(f_trace) = Cardinality(WithinDepth)
        /\ CommentIds = WithinDepth
        /\ Len(f_comments) = Cardinality(WithinDepth)
        /\ \A k \in 1..Len(f_comments) : f_comments[k]._depth = TrueDepth(f_comments[k].id)
        /\ DumpedIds = WithinDepth
        /\ hn.max_depth = 0 => FetchedIds = {n \in Comments : hn.parent[n] = 0}

\* C13 witness: a thread five replies deep, all live, has been read with
\* maximum depth 2.
C13_Witness ==
    /\ f_pc = "done" /\ AllLive /\ hn.max_depth = 2
    /\ \E n \in Comments : TrueDepth(n) = 4
    /\ \E n \in CommentIds : TrueDepth(n) = 2

\* C14: no reply the source flags as deleted or dead is among the retrieved
\* comments or in comment_dump, whatever the reply tree.
C14_NoDeletedOrDead ==
    f_pc = "done" =>
        \A n \in Comments :
            hn.status[n] \in {"deleted", "dead"} => n \notin CommentIds /\ n \notin DumpedIds

\* C14 witness: a deleted reply and a dead one have been fetched, next to
\* replies that were kept.
C14_Witness ==
    /\ f_pc = "done"
    /\ \E n \in FetchedIds : hn.status[n] = "deleted"
    /\ \E n \in FetchedIds : hn.status[n] = "dead"
    /\ \E n \in CommentIds : TrueDepth(n) = 1

\* ---- ingest.main and insert_story_with_content
HnIdsOf(rows) == {rows[l].hn_id : l \in 1..Len(rows)}

Handled(p) == ~IsNull(i_last[p])

\* C15: after sequential runs of the Source Fetcher, whose lists may name an
\* identifier more than once, no two links rows carry the same hn_id, and an
\* identifier found in links is neither fetched nor inserted
C15_OneRowPerIdentifier ==
    /\ \A l1, l2 \in 1..Len(links) : links[l1].hn_id = links[l2].hn_id => l1 = l2
    /\ \A p \in Fetchers :
           Handled(p) /\ Val(i_last[p]).present
               => ~Val(i_last[p]).fetched /\ ~Val(i_last[p]).inserted

\* a later run meets an identifier that an earlier run stored
C15_Witness ==
    /\ runs.ingest = 2
    /\ Handled(1) /\ Val(i_last[1]).present
    /\ Val(i_last[1]).hn_id \in HnIdsOf(links)
    /\ i_pc[1] = "check"

\* C16: two runs of the Source Fetcher at once, over the same identifiers,
\* store each identifier once
C16_OneRowPerIdentifierUnderRace ==
    /\ Cardinality(HnIdsOf(links)) = Len(links)
    /\ Cardinality(HnIdsOf(links)) = Len(contents)

\* C17: in the committed tables a links row has a contents row, and a
\* contents row has its links row, at every moment of every run
C17_ContentIffItem ==
    /\ \A l \in 1..Len(links) : \E c \in 1..Len(contents) : contents[c].link_id = l
    /\ \A c \in 1..Len(contents) : contents[c].link_id \in 1..Len(links)

\* one run has written a links row it has not committed, beside a pair that
\* another run committed
C17_Witness ==
    /\ Len(links) >= 1
    /\ \E p \in Fetchers : i_pc[p] = "insert_content" /\ Len(i_tx[p].links) = 1
    /\ \E q \in Fetchers : Handled(q) /\ Val(i_last[q]).inserted

\* ---- the enrichment stages over one analysis table
HasBody(c) == ~IsNull(contents[c].article) /\ Val(contents[c].article) # EmptyText

Summarized(c) ==
    \E r \in Range(analysis[c]) : ~IsNull(r.article_summary) /\ ~IsNull(r.categories)

Scored(c) == ScoredRows(c) # {}

SelectedToAnalyze(c) == c \in Range(get_contents_to_analyze)

SelectedToScore(c) == \E row \in Range(get_unscored_contents) : row.id = c

\* C18: the summarization stage selects every content with a body whose
\* summary and categories are absent, also when an analysis row holding only
\* scores exists for it, and the scoring stage selects every content with a
\* body whose scores are absent.
C18_SelectsByColumn ==
    \A c \in Articles :
        HasBody(c) =>
            /\ ~Summarized(c) => SelectedToAnalyze(c)
            /\ ~Scored(c) => SelectedToScore(c)

\* C19: a turn of the scoring stage leaves the article_summary,
\* comments_summary and categories of every analysis row as they were, a turn
\* of the summarization stage leaves the scores of every analysis row as they
\* were, and neither removes a row.
C19_OwnColumnsOnly ==
    [][\A c \in Articles :
           /\ Len(analysis'[c]) >= Len(analysis[c])
           /\ \A k \in 1..Len(analysis[c]) :
                  /\ (s_pc = "loop" /\ s_i' = s_i + 1) =>
                         /\ analysis'[c][k].article_summary = analysis[c][k].article_summary
                         /\ analysis'[c][k].comments_summary = analysis[c][k].comments_summary
                         /\ analysis'[c][k].categories = analysis[c][k].categories
                  /\ (a_pc = "loop" /\ a_i' = a_i + 1) =>
                         analysis'[c][k].scores = analysis[c][k].scores]_vars

\* the scoring stage has written scores into a row the summarization stage
\* committed first, and the summarization stage has committed a row for a
\* content the scoring stage had scored first
C19_Witness ==
    /\ \E c \in Articles : \E r \in Range(analysis[c]) :
           /\ r.article_summary = Some(<<"s">>) /\ r.categories # Null
           /\ ~IsNull(r.scores)
    /\ \E c \in Articles :
           /\ Len(analysis[c]) = 2
           /\ analysis[c][1].article_summary = Null /\ ~IsNull(analysis[c][1].scores)
           /\ ~IsNull(analysis[c][2].article_summary)

\* C20: once the stages are idle and neither has work left for a content with
\* a body, that content has one analysis row, and the row holds summary,
\* categories and scores.
C20_NoWorkLeftMeansComplete ==
    \A c \in Articles :
        (/\ HasBody(c)
         /\ s_pc = "idle" /\ a_pc = "idle"
         /\ ~SelectedToAnalyze(c) /\ ~SelectedToScore(c))
            => /\ Len(analysis[c]) = 1
               /\ Summarized(c)
               /\ Scored(c)

\* ---- failures within a run of the Source Fetcher
FailedReplies == {n \in Comments : hn.status[n] = "failed"}

DumpOf(row) == IF IsNull(row.comments) THEN {} ELSE Range(Val(row.comments))

FetchFailed(p) == Handled(p) /\ Val(i_last[p]).outcome = "failed"

\* C21: a story whose fetch fails leaves no links row, no contents row and no
\* write behind, the run goes on to the next identifier of its list (or ends
\* when the list is through), and no reply whose fetch failed is in a stored
\* comment dump.
C21_FetchFailureSkips ==
    [][
          /\ \A p \in Fetchers :
                 FetchFailed(p)' =>
                     /\ ~Val(i_last[p]).inserted'
                     /\ ~story_exists(Val(i_last[p]).hn_id)'
          /\ \A p \in Fetchers :
                 (i_pc[p] = "fetch" /\ i_pc'[p] # "fetch" /\ FetchFailed(p)') =>
                     /\ links' = links /\ contents' = contents /\ i_tx' = i_tx
                     /\ IF i_k[p] < Len(i_ids[p])
                        THEN i_pc'[p] = "check" /\ i_k'[p] = i_k[p] + 1
                             /\ i_ids'[p] = i_ids[p]
                        ELSE i_pc'[p] = "done"
          /\ \A c \in 1..Len(contents') : \A n \in FailedReplies :
                 ToString(n) \notin DumpOf(contents'[c])]_vars

\* in its second run the Source Fetcher has fetched story 1 again, which
\* failed before and fails now; story 2 was stored after that failure, with
\* a comment dump from a thread in which a reply could not be fetched
C21_Witness ==
    /\ runs.ingest = 2
    /\ FetchFailed(1) /\ Val(i_last[1]).hn_id = 1 /\ i_k[1] = 2
    /\ HnIdsOf(links) = {2}
    /\ \E c \in 1..Len(contents) : ToString(1) \in DumpOf(contents[c])
    /\ \E n \in FailedReplies : hn.parent[n] # 0 /\ hn.status[hn.parent[n]] = "live"

\* ---- failed derivation calls in the enrichment stages
\* the run in progress has tried content c, and the stage's output for c is
\* still absent
AnalyzeFailedFor(c) ==
    /\ HasBody(c) /\ ~Summarized(c)
    /\ \E k \in 1..Len(a_contents) : k < a_i /\ a_contents[k] = c

ScoreFailedFor(c) ==
    /\ HasBody(c) /\ ~Scored(c)
    /\ \E k \in 1..Len(s_contents) : k < s_i /\ s_contents[k].id = c

\* C22: a content for which a stage's derivation call failed has nothing
\* written by that stage and is among the contents the stage's next
\* invocation selects.
C22_FailedItemStaysEligible ==
    \A c \in Articles :
        /\ AnalyzeFailedFor(c) => SelectedToAnalyze(c)
        /\ ScoreFailedFor(c) => SelectedToScore(c)

\* ---- missing settings
\* C23: when the mail settings are missing the Digest Dispatcher writes
\* nothing, and the run ends there: it does not go on to another subscriber.
C23_MissingSettingsEndTheRun ==
    [][(d_pc = "next" /\ d_mail = "config_error") =>
           /\ user_articles' = user_articles
           /\ user_articles = d_pre
           /\ d_pc' # d_pc => d_pc' = "done"]_vars

\* ---- the order of a digest
\* the relevance_score of the k-th association of the digest being sent, as
\* the query read it
DigestScore(k) == RowOf(d_pre, d_articles[k]).relevance_score

PreviousBatch(p) ==
    {c_links[p][k] : k \in {j \in 1..Len(c_links[p]) : c_i[p] - BATCH_SIZE <= j /\ j < c_i[p]}}

ArticleOf(link_id) ==
    {contents[i].article : i \in {j \in 1..Len(contents) : contents[j].link_id = link_id}}

\* every crawl of the batch before has a result, and its results that are
\* not None are in the committed contents
PreviousBatchCommitted(p) ==
    /\ {c_results[p][k].link_id : k \in 1..Len(c_results[p])} = PreviousBatch(p)
    /\ \A k \in 1..Len(c_results[p]) :
           ~IsNull(c_results[p][k].article) =>
               ArticleOf(c_results[p][k].link_id) = {c_results[p][k].article}

\* C25: a run has at most BATCH_SIZE crawls in flight, and while a crawl of
\* a batch is in flight every crawl of the batch before has finished and its
\* results are committed.
C25_BatchBound ==
    \A p \in Crawlers :
        /\ Len(c_tasks[p]) <= BATCH_SIZE
        /\ Cardinality(InFlight(p)) <= BATCH_SIZE
        /\ c_tasks[p] # <<>> =>
               /\ IsNull(c_tx[p])
               /\ c_i[p] > 1 => PreviousBatchCommitted(p)

\* the crawls of a second batch are in flight, after a full first batch of
\* which a result was stored
C25_Witness ==
    /\ c_i[1] = BATCH_SIZE + 1 /\ InFlight(1) # {}
    /\ Len(c_results[1]) = BATCH_SIZE
    /\ \E k \in 1..Len(c_results[1]) : ~IsNull(c_results[1][k].article)

\* C26: when a batch has been stored, every body it changed holds the page of
\* that row's own link, and every crawl that returned a page has that page in
\* the row of the link it crawled.
C26_ResultKeyedByItem ==
    \A p \in Crawlers :
        c_pre[p] # <<>> =>
            /\ \A i \in 1..Len(contents) :
                   contents[i].article # c_pre[p][i].article =>
                       contents[i].article = Some(PageText(contents[i].link_id))
            /\ \A k \in 1..Len(c_outcomes[p]) :
                   (~c_outcomes[p][k].raised /\ ~IsNull(c_outcomes[p][k].value)) =>
                       ArticleOf(c_outcomes[p][k].link_id) =
                           {Some(PageText(c_outcomes[p][k].link_id))}

\* a batch has been stored in which two crawls returned different pages and
\* a crawl between them raised
C26_Witness ==
    /\ c_pre[1] # <<>>
    /\ \E j, k, l \in 1..Len(c_outcomes[1]) :
           /\ j < k /\ k < l
           /\ c_outcomes[1][k].raised
           /\ ~IsNull(c_outcomes[1][j].value) /\ ~IsNull(c_outcomes[1][l].value)
           /\ c_outcomes[1][j].value # c_outcomes[1][l].value
           /\ ArticleOf(c_outcomes[1][j].link_id) = {c_outcomes[1][j].value}
           /\ ArticleOf(c_outcomes[1][l].link_id) = {c_outcomes[1][l].value}

Written(p) ==
    {c_results[p][k].link_id :
        k \in {j \in 1..Len(c_results[p]) : ~IsNull(c_results[p][j].article)}}

\* C28: a body that is there is never set back to null, and no run of the
\* Content Extractor writes the body of a row that has one.
C28_BodyWrittenOnce ==
    [][/\ \A i \in 1..Len(contents) :
              ~IsNull(contents[i].article) => ~IsNull(contents'[i].article)
       /\ \A p \in Crawlers :
              (c_pc[p] = "store" /\ c_pc'[p] = "commit") =>
                  \A l \in Written(p) : ArticleOf(l) = {Null}]_vars

\* ---- the analysis rows of a content under both enrichment stages
\* the rows of the content the summarization stage handled last
LastAnalyzed == Range(analysis[Val(a_last).id])

\* the rows of the content the scoring stage handled last
LastScored == Range(analysis[Val(s_last).id])

\* C29: however the turns of the summarization stage and of the scoring stage
\* interleave, a content has at most one analysis row, and what a stage derived
\* for a content is in that row.
C29_OneRowForBothStages ==
    /\ \A c \in Articles : Len(analysis[c]) <= 1
    /\ (~IsNull(a_last) /\ Gathered(Val(a_last).outcome)) =>
           \E r \in LastAnalyzed :
               /\ r.article_summary = Val(a_last).outcome.article_summary
               /\ r.comments_summary = Val(a_last).outcome.comments_summary
               /\ r.categories = Val(a_last).outcome.categories
    /\ (~IsNull(s_last) /\ ~IsNull(Val(s_last).scores)) =>
           \E r \in LastScored : ~IsNull(r.scores)

\* C30: what each of the derivation calls for a content returned is saved,
\* whether or not the other calls for that content failed.
C30_EachTaskSavedOnItsOwn ==
    /\ ~IsNull(a_last) =>
           LET o == Val(a_last).outcome
           IN  /\ ~IsNull(o.article_summary) =>
                      \E r \in LastAnalyzed : r.article_summary = o.article_summary
               /\ ~IsNull(o.comments_summary) =>
                      \E r \in LastAnalyzed : r.comments_summary = o.comments_summary
               /\ ~IsNull(o.categories) =>
                      \E r \in LastAnalyzed : r.categories = o.categories
    /\ (~IsNull(s_last) /\ ~IsNull(Val(s_last).scores)) =>
           \E r \in LastScored : ~IsNull(r.scores)

\* ---- the order of the retrieved replies
\* reply n lies somewhere below reply a
RECURSIVE Below(_, _)
Below(n, a) ==
    IF hn.parent[n] = 0 THEN FALSE
    ELSE hn.parent[n] = a \/ Below(hn.parent[n], a)

\* where the body of the k-th retrieved reply stands in comment_dump
DumpPos(k) == CHOOSE i \in 1..Len(f_dump) : f_dump[i] = ToString(f_comments[k].id)

\* the body of the k-th retrieved reply is in comment_dump, on a line of its
\* own that is indented by the reply's depth
DumpedAtDepth(k) ==
    /\ \E i \in 1..Len(f_dump) : f_dump[i] = ToString(f_comments[k].id)
    /\ LET pos == DumpPos(k)
           d == f_comments[k]._depth
       IN  /\ pos > d + 1
           /\ \A i \in (pos - d)..(pos - 1) : f_dump[i] = "  "
           /\ f_dump[pos - d - 1] = "\n"

\* C31: the retrieved replies, and their lines in comment_dump, are in
\* depth-first pre-order: a reply comes after its parent and is one deeper,
\* the retrieved replies below a reply follow it without a gap, replies to
\* the same parent keep the source's order, and top-level replies have depth 0.
C31_DepthFirstPreOrder ==
    f_pc = "done" =>
        /\ \A k \in 1..Len(f_comments) :
               LET n == f_comments[k].id
               IN  /\ hn.parent[n] = 0 => f_comments[k]._depth = 0
                   /\ hn.parent[n] # 0 =>
                          \E j \in 1..(k - 1) :
                              /\ f_comments[j].id = hn.parent[n]
                              /\ f_comments[k]._depth = f_comments[j]._depth + 1
                   /\ DumpedAtDepth(k)
        /\ \A j, k \in 1..Len(f_comments) :
               j < k =>
                   /\ Below(f_comments[k].id, f_comments[j].id) =>
                          \A m \in (j + 1)..k : Below(f_comments[m].id, f_comments[j].id)
                   /\ hn.parent[f_comments[j].id] = hn.parent[f_comments[k].id] =>
                          f_comments[j].id < f_comments[k].id
                   /\ DumpPos(j) < DumpPos(k)

\* two threads have been read down to the third level: the first thread's
\* replies stand before the second top-level reply, which has a reply too
C31_Witness ==
    /\ f_pc = "done" /\ Len(f_comments) >= 5
    /\ \E j, k, l, m \in 1..Len(f_comments) :
           /\ j < k /\ k < l /\ l < m
           /\ hn.parent[f_comments[j].id] = 0 /\ f_comments[k]._depth = 2
           /\ Below(f_comments[k].id, f_comments[j].id)
           /\ hn.parent[f_comments[l].id] = 0
           /\ hn.parent[f_comments[m].id] = f_comments[l].id

\* ---- replies below a reply that was not kept
\* some reply above n is deleted, dead or could not be fetched
UnderDropped(n) == \E a \in Comments : Below(n, a) /\ hn.status[a] # "live"

\* C39: a reply below a deleted, dead or unfetchable reply is never asked for
\* and is neither among the retrieved comments nor in comment_dump, also when
\* it lies within the depth bound.
C39_NothingBelowDropped ==
    f_pc = "done" =>
        \A n \in Comments :
            UnderDropped(n) =>
                n \notin FetchedIds /\ n \notin CommentIds /\ n \notin DumpedIds

\* live replies within the depth bound were left out, one below a reply
\* flagged dead or deleted and one below a reply whose request failed
C39_Witness ==
    /\ f_pc = "done"
    /\ \A sts \in {{"dead", "deleted"}, {"failed"}} :
           \E n \in WithinDepth :
               /\ hn.status[n] = "live" /\ hn.parent[n] # 0
               /\ hn.status[hn.parent[n]] \in sts
               /\ hn.parent[n] \in FetchedIds
               /\ n \notin FetchedIds

\* ---- pairs the Matcher has been through before
\* the rows stored for the pair whose upsert is under way
PendingPairRows ==
    Range(user_articles[<<Val(m_tx).step.user, Val(m_tx).step.article>>])

\* C32: the Matcher makes no upsert for a pair for which an association with
\* an empty match set is stored.
C32_EmptyMatchNotEvaluatedAgain ==
    ~IsNull(m_tx) =>
        \A row \in PendingPairRows : row.matched_categories # Some(EmptyJson)

\* ---- what an upsert leaves of the row it meets
\* the table as the upsert under way leaves it
Upserted == Val(m_tx).table

\* C33: an upsert that meets a row of the pair changes matched_categories and
\* relevance_score only: is_sent, is_read and created_at stay, and no other
\* pair is touched.  A pair marked as sent for its empty match set stays sent
\* when a later run gives it a match set, and no digest lists it.
C33_UpsertKeepsFlags ==
    /\ ~IsNull(m_tx) =>
           \A p \in Pairs :
               /\ p # <<Val(m_tx).step.user, Val(m_tx).step.article>> =>
                      Upserted[p] = user_articles[p]
               /\ user_articles[p] # <<>> =>
                      /\ Len(Upserted[p]) = Len(user_articles[p])
                      /\ \A k \in 1..Len(user_articles[p]) :
                             /\ Upserted[p][k].is_sent = user_articles[p][k].is_sent
                             /\ Upserted[p][k].is_read = user_articles[p][k].is_read
                             /\ Upserted[p][k].created_at = user_articles[p][k].created_at
    /\ \A p \in Pairs :
           d_log[p].marked_empty =>
               /\ \A k \in 1..Len(user_articles[p]) : user_articles[p][k].is_sent
               /\ d_log[p].delivered = 0
               /\ \A k \in 1..Len(d_articles) :
                      <<d_articles[k][1], d_articles[k][2]>> # p

\* the upsert under way gives a match set to a pair that was marked as sent
\* for its empty match set, and the upsert before it met a row that had been
\* read and listed in a digest
C33_Witness ==
    /\ m_pc = "commit" /\ ~IsNull(m_last)
    /\ LET p == <<Val(m_tx).step.user, Val(m_tx).step.article>>
       IN  /\ d_log[p].marked_empty
           /\ Val(m_tx).step.matched # <<>>
           /\ Upserted[p][1].is_sent
           /\ Upserted[p][1].created_at < Now
    /\ LET q == <<Val(m_last).user, Val(m_last).article>>
       IN  /\ user_articles[q][1].is_read
           /\ user_articles[q][1].is_sent
           /\ d_log[q].delivered = 1

\* ---- subscribers with nothing to list
\* in table ua, subscriber u has unsent rows and none of them has a match set
OnlyEmptyUnsent(ua, u) ==
    /\ \E id \in IdsOf(ua) : id[1] = u /\ ~RowOf(ua, id).is_sent
    /\ UnsentMatched(ua, u) = {}

\* C34: for a subscriber whose unsent rows all have an empty match set the
\* Dispatcher sends no mail and writes nothing, and between runs such a
\* subscriber is among those the next run selects.
C34_NothingForEmptyOnly ==
    /\ (/\ d_pc \in {"send", "mark", "mark_commit", "mark_empty", "mark_empty_commit", "next"}
        /\ OnlyEmptyUnsent(d_pre, d_users[d_i]))
           => /\ d_pc = "next"
              /\ d_mail = "none"
              /\ IsNull(d_tx)
              /\ user_articles = d_pre
    /\ d_pc = "idle" =>
           \A u \in Users :
               OnlyEmptyUnsent(user_articles, u) =>
                   u \in Range(get_users_with_unsent_articles)

\* in a second run the Dispatcher has passed by a subscriber whose unsent rows
\* have no match set, after a digest for another subscriber was accepted
C34_Witness ==
    /\ runs.digest = 2 /\ d_pc = "next"
    /\ OnlyEmptyUnsent(d_pre, d_users[d_i])
    /\ \E p \in Pairs : d_log[p].delivered = 1

\* ---- how often a digest lists an association
\* C35: over Dispatcher runs that follow one another and are not stopped
\* between sending and marking, no association is listed in more than one
\* digest accepted for delivery.
C35_ListedAtMostOnce == \A p \in Pairs : d_log[p].delivered <= 1

\* in a second run a digest has just been accepted, after the first run had
\* one accepted whose rows are marked as sent
C35_Witness ==
    /\ runs.digest = 2 /\ d_pc = "mark" /\ d_mail = "delivered"
    /\ \E p \in Pairs :
           /\ d_log[p].delivered = 1
           /\ user_articles[p][1].is_sent

\* ---- scores once written
\* the contents a scoring run has selected
SelectedIds(selection) == {selection[k].id : k \in 1..Len(selection)}

EmptyBodied(cont) ==
    {c \in DOMAIN cont : cont[c].article = Some(EmptyText)}

\* the crawls of the batch stored last that came back with the empty string
CrawledEmpty ==
    {c_outcomes[1][k].link_id : k \in {j \in 1..Len(c_outcomes[1]) :
        ~c_outcomes[1][j].raised /\ c_outcomes[1][j].value = Some(EmptyText)}}

\* C37: an empty crawl result is stored as the body; a content with an empty
\* body keeps it, is selected by no later run of the Content Extractor or of
\* the summarization stage, is selected by every scoring run, and never gets
\* an analysis row.
C37_EmptyBodyNeverEnriched ==
    [][/\ contents' # contents =>
              \A c \in DOMAIN contents :
                  contents[c].link_id \in CrawledEmpty => c \in EmptyBodied(contents')
       /\ \A c \in EmptyBodied(contents') :
              /\ analysis'[c] = <<>>
              /\ (c_pc[1] = "idle" /\ c_pc'[1] # "idle") =>
                     contents[c].link_id \notin Range(c_links'[1])
              /\ (a_pc = "idle" /\ a_pc' # "idle") => c \notin Range(a_contents')
              /\ (s_pc = "idle" /\ s_pc' # "idle") => c \in SelectedIds(s_contents')
       /\ \A c \in EmptyBodied(contents) : c \in EmptyBodied(contents')]_vars

\* the first content has an empty body; a scoring run selected it, took its
\* turn for it and committed nothing, and a later run of the Content Extractor
\* selected nothing
C37_Witness ==
    /\ 1 \in EmptyBodied(contents)
    /\ c_pc[1] = "done" /\ c_links[1] = <<>>
    /\ ~IsNull(s_last) /\ Val(s_last).id = 1 /\ IsNull(Val(s_last).scores)
    /\ analysis[1] = <<>>

\* what the Matcher's last turn derived for its pair: the clamped answer of
\* the derivation call, and nothing when the call was not made or raised
DerivedThisRun ==
    LET l == Val(m_last)
    IN  IF l.invoked /\ ~IsNull(l.outcome) THEN Some(ClampRelevance(Val(l.outcome)))
        ELSE Null

\* C38: after the upsert for a pair with a non-empty match set, the stored
\* relevance score is what this run derived, and null when the derivation
\* failed or was skipped, whatever score the pair held before.
C38_ScoreIsThisRunsOutcome ==
    (~IsNull(m_last) /\ Val(m_last).matched # <<>>) =>
        LET l == Val(m_last)
        IN  /\ user_articles[<<l.user, l.article>>] # <<>>
            /\ \A r \in Range(user_articles[<<l.user, l.article>>]) :
                   r.relevance_score = DerivedThisRun

\* C38 witness: a re-run has upserted a pair with a non-empty match set for
\* which the derivation call raised, the previous run had left a score for the
\* pair, and the pair holds none now.
C38_Witness ==
    /\ ~IsNull(m_last) /\ Val(m_last).matched # <<>>
    /\ Val(m_last).invoked /\ IsNull(Val(m_last).outcome)
    /\ ~IsNull(m_hist.prev_table)
    /\ LET p == <<Val(m_last).user, Val(m_last).article>>
       IN  /\ Val(m_hist.prev_table)[p] # <<>>
           /\ ~IsNull(Val(m_hist.prev_table)[p][1].relevance_score)
           /\ IsNull(user_articles[p][1].relevance_score)

\* the same for a derivation that was skipped: the subscriber's description
\* was emptied after the run that stored the score
C38_WitnessSkipped ==
    /\ ~IsNull(m_tx) /\ Val(m_tx).step.matched # <<>>
    /\ ~Val(m_tx).step.invoked
    /\ LET p == <<Val(m_tx).step.user, Val(m_tx).step.article>>
       IN  /\ user_articles[p] # <<>>
           /\ ~IsNull(user_articles[p][1].relevance_score)
           /\ IsNull(Val(m_tx).table[p][1].relevance_score)

====
